---- MODULE Spec2Model ----
(***************************************************************************)
(* Token lifecycle of gotrue: the password grant and the refresh grant of  *)
(* api/token.go (ResourceOwnerPasswordGrant, RefreshTokenGrant,            *)
(* issueRefreshToken, getExpiry), the user and refresh-token lookups of    *)
(* models/user.go, the process-wide LRU token cache, and the refresh-token *)
(* store protocol (grant, swap, logout) as the document store sees it.     *)
(*                                                                         *)
(* Every request is a process with a program counter; one action is one    *)
(* store operation, cache operation or clock read of the handler together  *)
(* with the local code around it.  Writes made inside db.Tx are staged in  *)
(* the request's transaction and reach the store at commit only.           *)
(***************************************************************************)
EXTENDS Integers, Sequences, FiniteSets, Bags, TLC

(* ---- bounds of the model ---------------------------------------------- *)
MaxTokens == 3          \* refresh tokens ever generated
MaxTime == 3            \* the clock runs 0..MaxTime (seconds)
MaxUsers == 2           \* users ever created
MaxAudit == 2           \* audit entries of Signup
MaxInvites == 2         \* invitations ever created
MaxPwLen == 17          \* longest password tried, in bytes

(* ---- configuration and program constants ------------------------------ *)
CacheMargin == 3600     \* "if expiry is within an hour then evict"
JWTExp == 3602          \* config.JWT.Exp, seconds
TokenCacheSize == 1     \* globalConfig.API.TokenCacheSize
EnableTokenCache == TRUE  \* a.config.API.EnableTokenCache

Reqs == {1, 2}          \* concurrently served requests

NoTok == 0
TokIds == 1..MaxTokens

(* The persisted users (instance, email, audience, confirmed_at, password). *)
(* plainPayload: the JSON claims of the user's access tokens encode to a    *)
(* base64url payload free of '-' and '_' (no '?', '~' or non-ASCII byte at  *)
(* the end of a 3-byte group of the claims).                                *)
InitUsers ==
  { [id |-> "u1", instance |-> "i1", email |-> "e1", aud |-> "a1",
     confirmed |-> TRUE, secret |-> "pw", plainPayload |-> TRUE],
    [id |-> "u2", instance |-> "i1", email |-> "e2", aud |-> "a1",
     confirmed |-> TRUE, secret |-> "pw", plainPayload |-> FALSE],
    [id |-> "u3", instance |-> "i1", email |-> "e3", aud |-> "a1",
     confirmed |-> FALSE, secret |-> "pw", plainPayload |-> TRUE] }

(* Two users of one instance with the same email, one per audience.        *)
SharedEmailUsers ==
  { [id |-> "u1", instance |-> "i1", email |-> "e1", aud |-> "a1",
     confirmed |-> TRUE, secret |-> "pw", plainPayload |-> TRUE],
    [id |-> "u4", instance |-> "i1", email |-> "e1", aud |-> "a2",
     confirmed |-> TRUE, secret |-> "pw", plainPayload |-> TRUE] }
Auds == {"a1", "a2"}

(* The values of globalConfig.API.TokenCacheSize that are tried.            *)
CacheSizes == {0, TokenCacheSize}

UserIds == {u.id : u \in InitUsers}
(* The users of the deployment in which the workers race: one confirmed,   *)
(* one unconfirmed.                                                         *)
RaceUsers == {u \in InitUsers : u.id \in {"u1", "u3"}}
Emails == {"e1", "e2", "e3", "e0"}
Passwords == {"pw", "bad"}

VARIABLES
  users,          \* collection User
  refreshTokens,  \* collection RefreshToken: records [id, user, revoked, parent]
  auditLog,       \* collection AuditLogEntry: a bag of [actor, action]
  tokenCache,     \* a.tokenCache: sequence of [key, ptr], most recently used first
  heap,           \* the *AccessTokenResponse objects the cache points to
  now,            \* time.Now().Unix()
  nextTok,        \* the next fresh refresh-token string
  reqs,           \* the requests being served
  out,            \* the response sent by the last step, with its request
  client,         \* what a client that follows its responses holds
  loggedOut,      \* history: the refresh tokens a logout has removed
  api,            \* NewAPIWithVersion: the configured cache capacity, and how it ended
  cipher,         \* a user record and the calls of the AESBlockEncrypter made on it
  signer,         \* the configured key material, TokenSigner.init and the last token signed
  invites,        \* collection Invitation, and the last response of its endpoints
  dial            \* storage.Client: the attempts made, the driver, the error, the result

vars == <<users, refreshTokens, auditLog, tokenCache, heap, now, nextTok, reqs, out,
          client, loggedOut, api, cipher, signer, invites, dial>>

store == <<users, refreshTokens, auditLog>>

(* ---- values ------------------------------------------------------------ *)
NoToken == [id |-> NoTok, user |-> "", revoked |-> FALSE, parent |-> NoTok]
NoUser == [id |-> "", instance |-> "", email |-> "", aud |-> "",
           confirmed |-> FALSE, secret |-> "", plainPayload |-> TRUE]
NoAccess ==
  [sub |-> << >>, aud |-> "", iss |-> << >>, iat |-> 0, exp |-> 0, alg |-> "",
   hasKid |-> FALSE, kid |-> "", stdDecodable |-> TRUE]
NoPair == [Token |-> NoAccess, TokenType |-> "", ExpiresIn |-> 0, RefreshToken |-> NoTok]
NoResp == [status |-> 0, error |-> "", desc |-> "", pair |-> NoPair]
NoOut == [kind |-> "none", at |-> "idle", tokenStr |-> NoTok, user |-> "",
          path |-> "none", checkNow |-> 0, cookieOut |-> "none", fault |-> "none",
          username |-> "", password |-> "", grantType |-> "", instance |-> "",
          resp |-> NoResp]
EmptyTx == [audit |-> EmptyBag, revoke |-> {}, insert |-> {}]

IdleReq ==
  [kind |-> "none", pc |-> "idle", username |-> "", tokenStr |-> NoTok,
   user |-> NoUser, token |-> NoTok, cached |-> NoTok,
   checkNow |-> 0, tx |-> EmptyTx, newTok |-> NoTok,
   access |-> NoAccess, cookieOut |-> "none", path |-> "none", fault |-> "none",
   password |-> "", grantType |-> "", instance |-> ""]

(* oauthError / internalServerError: the error response of a handler.       *)
OAuthError(code, desc) == [status |-> 400, error |-> code, desc |-> desc, pair |-> NoPair]
InternalServerError(desc) == [status |-> 500, error |-> "server_error", desc |-> desc, pair |-> NoPair]
OkResp(pair) == [status |-> 200, error |-> "", desc |-> "", pair |-> pair]

(* The error of the password grant when the lookup finds no user.           *)
NoUserFoundError ==
  OAuthError("invalid_grant", "No user found with that email, or password invalid.")

(* Variant of the error of a failed Authenticate that names its cause.      *)
AuthFailureErrorSpecific == OAuthError("invalid_grant", "Invalid Password")

(* The error of the password grant when Authenticate returns false.         *)
AuthFailureError ==
  OAuthError("invalid_grant", "No user found with that email, or password invalid.")

(* The error of the password grant for a user that is not confirmed.        *)
NotConfirmedError == OAuthError("invalid_grant", "Email not confirmed")

(* A handler returns from position q.pc: the response goes out, and the     *)
(* request with its transaction (if still open) is gone.  fault: the store  *)
(* error the request met in its lookups, if any.                            *)
Response(q, resp) ==
  [kind |-> q.kind, at |-> q.pc, tokenStr |-> q.tokenStr,
   user |-> q.user.id, path |-> q.path, checkNow |-> q.checkNow,
   cookieOut |-> q.cookieOut, fault |-> q.fault,
   username |-> q.username, password |-> q.password, grantType |-> q.grantType,
   instance |-> q.instance, resp |-> resp]

(* ---- the document store ------------------------------------------------ *)
(* findUser with the filter of FindUserByEmailAndAudience.                  *)
FindUserByEmailAndAudience(instanceID, email, aud) ==
  {u \in users : u.instance = instanceID /\ u.email = email /\ u.aud = aud}

FindUserByID(id) == {u \in users : u.id = id}

(* Variant of IsConfirmed that takes every user for confirmed.              *)
IsConfirmedAlways(u) == TRUE

(* User.IsConfirmed: confirmed_at is set.                                   *)
IsConfirmed(u) == u.confirmed

(* Variant of Authenticate that accepts every password.                     *)
AuthenticateAny(u, password) == TRUE

(* Authenticate: re-encrypt the presented password with the stored IV and   *)
(* compare with the stored ciphertext.                                      *)
Authenticate(u, password) == password = u.secret

(* ReadOne(filter.Eq("token", token)) on the refresh tokens.                *)
FindRefreshToken(token) == {t \in refreshTokens : t.id = token}

(* Commit of a transaction: its staged writes reach the store together.     *)
ApplyTokens(toks, tx) ==
  {IF t.id \in tx.revoke THEN [t EXCEPT !.revoked = TRUE] ELSE t : t \in toks}
    \cup tx.insert

ApplyAudit(log, tx) == log (+) tx.audit

MergeTx(outer, in) ==
  [audit |-> outer.audit (+) in.audit,
   revoke |-> outer.revoke \cup in.revoke,
   insert |-> outer.insert \cup in.insert]

AuditEntry(actor, action) == SetToBag({[actor |-> actor, action |-> action]})

(* ---- the LRU cache (hashicorp/golang-lru) ------------------------------- *)
CacheKeys == {tokenCache[i].key : i \in DOMAIN tokenCache}
CacheContains(key) == key \in CacheKeys
CacheIndex(key) == CHOOSE i \in DOMAIN tokenCache : tokenCache[i].key = key
CacheWithout(c, key) == SelectSeq(c, LAMBDA e : e.key # key)
CacheGet(key) == tokenCache[CacheIndex(key)].ptr
CacheTouch(key) == <<tokenCache[CacheIndex(key)]>> \o CacheWithout(tokenCache, key)
CacheAdd(key, ptr) ==
  LET c == <<[key |-> key, ptr |-> ptr]>> \o CacheWithout(tokenCache, key)
  IN  IF Len(c) > TokenCacheSize THEN SubSeq(c, 1, TokenCacheSize) ELSE c

(* The response objects still referenced by the cache or by a request; the *)
(* others are garbage.                                                      *)
Collect(h, c, rq) ==
  LET live == {c[i].ptr : i \in DOMAIN c}
                \cup {rq[r].cached : r \in Reqs}
                \cup {rq[r].newTok : r \in {x \in Reqs : rq[x].pc = "pg_send"}}
  IN  [p \in DOMAIN h \cap live |-> h[p]]

(* ---- access tokens ------------------------------------------------------ *)
(* The key files a configuration can name: none configured, a path that    *)
(* cannot be read, a file that is no PEM block, a PEM block that is no key  *)
(* of the expected form, and a good key.                                    *)
KeyFiles == {"", "unreadable", "notpem", "unparsable", "ok"}

(* config.JWT.Algorithm as configured.                                      *)
Algorithms == {"RS256", "HS256", ""}

(* The configuration the API of the other specifications runs with.         *)
DefaultConfig ==
  [Algorithm |-> "RS256", RSAPrivateKey |-> "ok", RSAPublicKey |-> "ok",
   Issuer |-> <<"iss1">>, SiteURL |-> "site"]

(* The signer as NewTokenSigner leaves it before init.                      *)
NewSigner(config) ==
  [end |-> "return", jwtConfig |-> config, privateKey |-> "nil", publicKey |-> "nil",
   kid |-> ""]

(* log.Fatal().Err(err): an event that is never sent (no Msg, no Send), so  *)
(* nothing is written and the process does not exit.                        *)
FatalErrOnly(t) == t

(* log.Fatal().Msg(...): the event is sent and the process exits.           *)
FatalMsg(t) == [t EXCEPT !.end = "exit"]

(* TokenSigner.init, statement by statement: the test of an unset private   *)
(* key under RS256; os.ReadFile, whose error is handed to                   *)
(* log.Fatal().Err only, leaving no data; pem.Decode, nil for no data and   *)
(* for data that is no PEM block, answered with log.Fatal().Msg;            *)
(* x509.ParsePKCS1PrivateKey, whose error is handed to log.Fatal().Err only *)
(* and followed by return; then the public key, read and parsed with a      *)
(* panic on each error, and its key id.                                     *)
TokenSignerInit(t) ==
  LET cfg == t.jwtConfig
  IN  IF cfg.RSAPrivateKey = "" /\ cfg.Algorithm = "RS256" THEN FatalMsg(t)
      ELSE IF cfg.RSAPrivateKey \in {"", "unreadable", "notpem"}
        THEN FatalMsg(IF cfg.RSAPrivateKey = "notpem" THEN t ELSE FatalErrOnly(t))
      ELSE IF cfg.RSAPrivateKey = "unparsable" THEN FatalErrOnly(t)
      ELSE IF cfg.RSAPublicKey # "ok" THEN [t EXCEPT !.end = "panic", !.privateKey = "key"]
      ELSE [t EXCEPT !.privateKey = "key", !.publicKey = "key", !.kid = "kid1"]

(* The signer of the API of the other specifications.                       *)
DefaultSigner == TokenSignerInit(NewSigner(DefaultConfig))

(* signUsingRsa: the kid header, the issuer from the configuration, and the *)
(* signature with the private key (err: there is no key to sign with).      *)
SignUsingRsa(t, token) ==
  [token EXCEPT !.hasKid = TRUE, !.kid = t.kid, !.iss = t.jwtConfig.Issuer,
                !.err = IF t.privateKey = "nil" THEN "nilkey" ELSE "none"]

(* Variant of signUsingHmacWithSHA that leaves the issuer of the claims.    *)
SignUsingHmacKeepsIssuer(t, token) == token

(* signUsingHmacWithSHA: the issuer from the configuration, and the         *)
(* signature with the configured secret.                                    *)
SignUsingHmacWithSHA(t, token) == [token EXCEPT !.iss = t.jwtConfig.Issuer]

(* Variant of generateAccessToken with the subject without its prefix.      *)
GenerateAccessTokenBareSubject(user, expiresIn, config, tokenSigner, t1, t2) ==
  LET claims == [sub |-> <<user.id>>, aud |-> user.aud,
                 iss |-> <<"http://", config.SiteURL>>, iat |-> t1, exp |-> t2 + expiresIn,
                 alg |-> "", hasKid |-> FALSE, kid |-> "",
                 stdDecodable |-> user.plainPayload, err |-> "none"]
  IN  IF config.Algorithm = "RS256"
        THEN SignUsingRsa(tokenSigner, [claims EXCEPT !.alg = "RS256"])
        ELSE SignUsingHmacWithSHA(tokenSigner, [claims EXCEPT !.alg = "HS256"])

(* generateAccessToken: the claims (subject "gt|" and the user id, audience, *)
(* issuer from the site URL, issued-at from one reading of the clock and    *)
(* expiry from the next), a token with the method config.JWT.Algorithm      *)
(* selects, and the signer's function for that method.  stdDecodable:       *)
(* whether the base64url payload is also valid for base64.RawStdEncoding,   *)
(* which getExpiry uses to decode it.                                       *)
generateAccessToken(user, expiresIn, config, tokenSigner, t1, t2) ==
  LET claims == [sub |-> <<"gt|", user.id>>, aud |-> user.aud,
                 iss |-> <<"http://", config.SiteURL>>, iat |-> t1, exp |-> t2 + expiresIn,
                 alg |-> "", hasKid |-> FALSE, kid |-> "",
                 stdDecodable |-> user.plainPayload, err |-> "none"]
  IN  IF config.Algorithm = "RS256"
        THEN SignUsingRsa(tokenSigner, [claims EXCEPT !.alg = "RS256"])
        ELSE SignUsingHmacWithSHA(tokenSigner, [claims EXCEPT !.alg = "HS256"])

(* The token string a successful generateAccessToken returns.               *)
Signed(token) ==
  [sub |-> token.sub, aud |-> token.aud, iss |-> token.iss, iat |-> token.iat,
   exp |-> token.exp, alg |-> token.alg, hasKid |-> token.hasKid, kid |-> token.kid,
   stdDecodable |-> token.stdDecodable]

(* The access token of a grant: generateAccessToken with the configuration  *)
(* and the signer of the API, both readings of the clock in one second.     *)
GenerateAccessToken(user, expiresIn, t) ==
  Signed(generateAccessToken(user, expiresIn, DefaultConfig, DefaultSigner, t, t))

(* Variant of getExpiry that reads the exp claim whatever the decoding      *)
(* returned.                                                                *)
GetExpiryUnchecked(token) == token.exp

(* getExpiry: the exp claim of a cached token, 0 when the payload does not  *)
(* decode.                                                                  *)
getExpiry(token) == IF token.stdDecodable THEN token.exp ELSE 0

(* Variant of the freshness test that keeps an entry expiring in exactly    *)
(* one hour.                                                                *)
WithinMarginStrict(t, exp) == t + CacheMargin > exp

(* The freshness test of the cache lookup: evict when this holds.           *)
WithinMargin(t, exp) == t + CacheMargin >= exp

(* A client that has not logged in.                                         *)
NoClient == [tok |-> NoTok, n |-> 0]

(* The API as NewAPIWithVersion returns it with the configured capacity.    *)
Serving == [state |-> "serving", cacheSize |-> TokenCacheSize]

(* No call of the encrypter is being followed.                              *)
(* No token signer constructed, and no invitation stored.                   *)
NoSigner == [pc |-> "none"]
NoInvites == [docs |-> {}]

NoCredentials == [EncryptedPassword |-> << >>, EncryptionIV |-> << >>]
NoCipher ==
  [pc |-> "none", by |-> "none", user |-> NoCredentials, set |-> << >>,
   former |-> << >>, hasFormer |-> FALSE, drawn |-> << >>, input |-> << >>,
   plain |-> << >>, result |-> "none", ops |-> << >>]

(* storage.Client has not been called.                                      *)
NoDial == [pc |-> "none"]

(* ---- Init ---------------------------------------------------------------- *)
InitBut(us, a, c, sg, inv) ==
  /\ users = us
  /\ api = a
  /\ cipher = c
  /\ signer = sg
  /\ invites = inv
  /\ client = NoClient
  /\ loggedOut = {}
  /\ refreshTokens = {}
  /\ auditLog = EmptyBag
  /\ tokenCache = << >>
  /\ heap = << >>
  /\ now = 0
  /\ nextTok = 1
  /\ reqs = [r \in Reqs |-> IdleReq]
  /\ out = NoOut

InitEvery(us, a, c, sg, inv) == InitBut(us, a, c, sg, inv) /\ dial = NoDial

InitAll(us, a, c) == InitEvery(us, a, c, NoSigner, NoInvites)

InitWith(us) == InitAll(us, Serving, NoCipher)

Init == InitWith(RaceUsers)
InitClock == InitWith(InitUsers)

(* A request arrives and takes the first free worker.                      *)
Free(r) ==
  /\ out = NoOut
  /\ reqs[r].pc = "idle"
  /\ \A x \in Reqs : x < r => reqs[x].pc # "idle"

(* Request r is at position pc (and no response is on its way out: the     *)
(* delivery of a response is a step of its own that nothing interleaves).   *)
At(r, pc) == out = NoOut /\ reqs[r].pc = pc
UserOf(r) == reqs[r].user
SetReq(r, q) ==
  /\ reqs' = [reqs EXCEPT ![r] = q]
  /\ out' = NoOut
  /\ UNCHANGED <<client, loggedOut, api, cipher, signer, invites, dial>>
Finish(r, q, resp) ==
  /\ reqs' = [reqs EXCEPT ![r] = IdleReq]
  /\ out' = Response(q, resp)
  /\ UNCHANGED <<client, loggedOut, api, cipher, signer, invites, dial>>

(* ---- password grant ------------------------------------------------------ *)
(* ResourceOwnerPasswordGrant up to the cache: find the user, require a     *)
(* confirmed user, authenticate.                                            *)
PasswordLookup(r, grantType, username, password, aud, dbErr) ==
  /\ Free(r)
  /\ LET q == [IdleReq EXCEPT !.kind = "password", !.pc = "pg_lookup", !.username = username,
                              !.password = password, !.grantType = grantType,
                              !.instance = "i1",
                              !.fault = IF dbErr THEN "user" ELSE "none"]
         found == FindUserByEmailAndAudience("i1", username, aud)
     IN  IF dbErr
           THEN Finish(r, q, InternalServerError("Database error finding user"))
         ELSE IF found = {}
           THEN Finish(r, q, NoUserFoundError)
         ELSE LET user == CHOOSE u \in found : TRUE
              IN  IF ~IsConfirmed(user)
                    THEN Finish(r, q, NotConfirmedError)
                  ELSE IF ~Authenticate(user, password)
                    THEN Finish(r, q, AuthFailureError)
                  ELSE SetReq(r, [q EXCEPT !.user = user, !.pc = "pg_get"])
  /\ UNCHANGED <<users, refreshTokens, auditLog, tokenCache, heap, now, nextTok>>

(* The cache lookup: a.config.API.EnableTokenCache, a.tokenCache.Contains   *)
(* and a.tokenCache.Get (an entry removed between the two is a miss like    *)
(* one removed before both), getExpiry of the cached token and the test     *)
(* against the clock.                                                       *)
PasswordCacheGet(r) ==
  /\ At(r, "pg_get")
  /\ LET key == UserOf(r).email
     IN  IF ~(EnableTokenCache /\ CacheContains(key))
           THEN /\ SetReq(r, [reqs[r] EXCEPT !.pc = "pg_tx"])
                /\ UNCHANGED tokenCache
           ELSE LET ptr == CacheGet(key)
                    exp == getExpiry(heap[ptr].Token)
                IN  /\ tokenCache' = CacheTouch(key)
                    /\ IF WithinMargin(now, exp)
                         THEN SetReq(r, [reqs[r] EXCEPT !.pc = "pg_remove"])
                         ELSE SetReq(r, [reqs[r] EXCEPT !.pc = "pg_hit", !.cached = ptr,
                                                        !.checkNow = now])
  /\ UNCHANGED <<users, refreshTokens, auditLog, heap, now, nextTok>>

(* a.tokenCache.Remove(user.Email)                                          *)
PasswordCacheRemove(r) ==
  /\ At(r, "pg_remove")
  /\ tokenCache' = CacheWithout(tokenCache, UserOf(r).email)
  /\ SetReq(r, [reqs[r] EXCEPT !.pc = "pg_tx"])
  /\ heap' = Collect(heap, tokenCache', reqs')
  /\ UNCHANGED <<users, refreshTokens, auditLog, now, nextTok>>

(* cachedAccessToken.ExpiresIn = int(exp - time.Now().Unix()): a write to   *)
(* the object the cache shares between requests.                            *)
PasswordCacheHit(r) ==
  /\ At(r, "pg_hit")
  /\ LET ptr == reqs[r].cached
     IN  heap' = [heap EXCEPT ![ptr].ExpiresIn = getExpiry(heap[ptr].Token) - now]
  /\ SetReq(r, [reqs[r] EXCEPT !.pc = "pg_sendcached", !.path = "cache"])
  /\ UNCHANGED <<users, refreshTokens, auditLog, tokenCache, now, nextTok>>

(* sendJSON(w, http.StatusOK, cachedAccessToken): serialises the shared     *)
(* object as it is now.                                                     *)
PasswordSendCached(r) ==
  /\ At(r, "pg_sendcached")
  /\ Finish(r, reqs[r], OkResp(heap[reqs[r].cached]))
  /\ heap' = Collect(heap, tokenCache, reqs')
  /\ UNCHANGED <<users, refreshTokens, auditLog, tokenCache, now, nextTok>>

(* A new refresh token of the user: fresh string, not revoked.              *)
NewRefreshToken(id, user, parent) ==
  [id |-> id, user |-> user, revoked |-> FALSE, parent |-> parent]

(* models.GrantAuthenticatedUser: the refresh token of a login.             *)
GrantAuthenticatedUser(tx, user, id) ==
  [tx EXCEPT !.insert = @ \cup {NewRefreshToken(id, user, NoTok)}]

(* NewAuditLogEntry inside a transaction.                                   *)
NewAuditLogEntry(tx, actor, action) ==
  [tx EXCEPT !.audit = @ (+) AuditEntry(actor, action)]

(* Variant of issueRefreshToken that signs after its transaction.           *)
IssueCommitsBeforeSigning(failAt, nested) ==
  nested = "own" /\ failAt \in {"none", "sign"}

(* issueRefreshToken opens a.db.Tx again inside the transaction of the     *)
(* grant.  The nested transaction either is part of the one already open    *)
(* (nested = "join"), or is a transaction of its own (nested = "own") that   *)
(* commits when its function, GrantAuthenticatedUser then                   *)
(* generateAccessToken, returns nil.                                        *)
IssueCommits(failAt, nested) == nested = "own" /\ failAt = "none"

(* The body of db.Tx in the password grant: NewAuditLogEntry,               *)
(* triggerEventHooks, issueRefreshToken.  The writes are staged; failAt     *)
(* names the statement that returns an error ("inner": the commit of the    *)
(* nested transaction), which ends the request with everything staged in    *)
(* the open transactions dropped.                                           *)
PasswordTx(r, failAt, nested) ==
  /\ At(r, "pg_tx")
  /\ LET outer == NewAuditLogEntry(EmptyTx, UserOf(r).id, "login")
         inner == GrantAuthenticatedUser(EmptyTx, UserOf(r).id, nextTok)
         issued == IssueCommits(failAt, nested)
         q == [reqs[r] EXCEPT !.pc = "pg_commit", !.newTok = nextTok,
                              !.access = GenerateAccessToken(UserOf(r), JWTExp, now)]
     IN  /\ (failAt = "none" \/ issued) => nextTok <= MaxTokens
         /\ nextTok' = IF failAt = "none" \/ issued THEN nextTok + 1 ELSE nextTok
         /\ refreshTokens' = IF issued THEN ApplyTokens(refreshTokens, inner)
                             ELSE refreshTokens
         /\ auditLog' = IF issued THEN ApplyAudit(auditLog, inner) ELSE auditLog
         /\ IF failAt # "none"
              THEN Finish(r, [reqs[r] EXCEPT !.pc = failAt], InternalServerError(failAt))
              ELSE SetReq(r, [q EXCEPT !.tx = IF nested = "join" THEN MergeTx(outer, inner)
                                              ELSE outer])
  /\ UNCHANGED <<users, tokenCache, heap, now>>

(* The cookie set inside the transaction (when the request carries the     *)
(* x-use-cookie header), then the commit of db.Tx.                          *)
SetCookieToken(q, cookie) == IF cookie THEN [q EXCEPT !.cookieOut = "token"] ELSE q

(* Variant of the password grant that adds its pair to the cache before     *)
(* the commit of db.Tx is known to have succeeded.                          *)
PasswordCommitCachesFirst(r, fail, cookie) ==
  /\ At(r, "pg_commit")
  /\ tokenCache' = CacheAdd(UserOf(r).email, reqs[r].newTok)
  /\ IF fail
       THEN /\ Finish(r, SetCookieToken(reqs[r], cookie), InternalServerError("commit"))
            /\ UNCHANGED <<refreshTokens, auditLog>>
       ELSE /\ SetReq(r, [SetCookieToken(reqs[r], cookie) EXCEPT !.pc = "pg_add", !.tx = EmptyTx])
            /\ refreshTokens' = ApplyTokens(refreshTokens, reqs[r].tx)
            /\ auditLog' = ApplyAudit(auditLog, reqs[r].tx)
  /\ heap' = Collect((reqs[r].newTok :> [Token |-> reqs[r].access, TokenType |-> "bearer",
                                         ExpiresIn |-> JWTExp, RefreshToken |-> reqs[r].newTok])
                       @@ heap, tokenCache', reqs')
  /\ UNCHANGED <<users, now, nextTok>>

PasswordCommit(r, fail, cookie) ==
  /\ At(r, "pg_commit")
  /\ IF fail
       THEN /\ Finish(r, SetCookieToken(reqs[r], cookie), InternalServerError("commit"))
            /\ UNCHANGED <<refreshTokens, auditLog>>
       ELSE /\ SetReq(r, [SetCookieToken(reqs[r], cookie) EXCEPT !.pc = "pg_add", !.tx = EmptyTx])
            /\ refreshTokens' = ApplyTokens(refreshTokens, reqs[r].tx)
            /\ auditLog' = ApplyAudit(auditLog, reqs[r].tx)
  /\ UNCHANGED <<users, tokenCache, heap, now, nextTok>>

(* The AccessTokenResponse issueRefreshToken returns.                       *)
IssuedPair(q) ==
  [Token |-> q.access, TokenType |-> "bearer", ExpiresIn |-> JWTExp, RefreshToken |-> q.newTok]

(* _ = a.tokenCache.Add(user.Email, token)                                  *)
PasswordCacheAdd(r) ==
  /\ At(r, "pg_add")
  /\ tokenCache' = CacheAdd(UserOf(r).email, reqs[r].newTok)
  /\ SetReq(r, [reqs[r] EXCEPT !.pc = "pg_send", !.path = "full"])
  /\ heap' = Collect((reqs[r].newTok :> IssuedPair(reqs[r])) @@ heap, tokenCache', reqs')
  /\ UNCHANGED <<users, refreshTokens, auditLog, now, nextTok>>

(* sendJSON(w, http.StatusOK, token)                                        *)
PasswordSend(r) ==
  /\ At(r, "pg_send")
  /\ Finish(r, reqs[r], OkResp(heap[reqs[r].newTok]))
  /\ heap' = Collect(heap, tokenCache, reqs')
  /\ UNCHANGED <<users, refreshTokens, auditLog, tokenCache, now, nextTok>>

(* ---- refresh grant ------------------------------------------------------- *)
(* Variant of FindUserWithRefreshToken that returns a missing token as a    *)
(* wrapped store error.                                                     *)
FindUserWithRefreshTokenWrapped(tokenStr, dbErr) ==
  LET found == FindRefreshToken(tokenStr)
  IN  IF found = {} \/ dbErr = "token"
        THEN [err |-> "db", user |-> NoUser, token |-> NoToken]
      ELSE LET token == CHOOSE t \in found : TRUE
               owner == FindUserByID(token.user)
           IN  IF dbErr = "user" THEN [err |-> "db", user |-> NoUser, token |-> NoToken]
               ELSE IF owner = {} THEN [err |-> "notfound", user |-> NoUser, token |-> NoToken]
               ELSE [err |-> "none", user |-> CHOOSE u \in owner : TRUE, token |-> token]

(* models.FindUserWithRefreshToken: the token by its string, then its user. *)
(* Any error of the token read is reported as not-found; an error of the    *)
(* user read is returned as it is.                                          *)
FindUserWithRefreshToken(tokenStr, dbErr) ==
  LET found == FindRefreshToken(tokenStr)
  IN  IF found = {} \/ dbErr = "token"
        THEN [err |-> "notfound", user |-> NoUser, token |-> NoToken]
      ELSE LET token == CHOOSE t \in found : TRUE
               owner == FindUserByID(token.user)
           IN  IF dbErr = "user" THEN [err |-> "db", user |-> NoUser, token |-> NoToken]
               ELSE IF owner = {} THEN [err |-> "notfound", user |-> NoUser, token |-> NoToken]
               ELSE [err |-> "none", user |-> CHOOSE u \in owner : TRUE, token |-> token]

(* Variant of the handler without the test of token.Revoked.               *)
RevokedIgnored(token) == FALSE

(* if token.Revoked                                                         *)
Revoked(token) == token.revoked

(* Variant of the handler that leaves the cookie.                           *)
ClearCookieTokenSkipped(q) == q

(* a.clearCookieToken(ctx, w)                                               *)
ClearCookieToken(q) == [q EXCEPT !.cookieOut = "cleared"]

(* RefreshTokenGrant up to the transaction: FindUserWithRefreshToken and    *)
(* the test of token.Revoked, both outside db.Tx.                           *)
RefreshLookupIn(r, grantType, instanceID, tokenStr, dbErr) ==
  /\ Free(r)
  /\ LET q == [IdleReq EXCEPT !.kind = "refresh", !.pc = "rg_lookup", !.tokenStr = tokenStr,
                              !.fault = dbErr, !.grantType = grantType,
                              !.instance = instanceID]
         res == FindUserWithRefreshToken(tokenStr, dbErr)
     IN  IF tokenStr = NoTok
           THEN Finish(r, q, OAuthError("invalid_request", "refresh_token required"))
         ELSE IF res.err = "notfound"
           THEN Finish(r, q, OAuthError("invalid_grant", "Invalid Refresh Token"))
         ELSE IF res.err # "none"
           THEN Finish(r, q, InternalServerError(res.err))
         ELSE IF Revoked(res.token)
           THEN Finish(r, ClearCookieToken(q), OAuthError("invalid_grant", "Invalid Refresh Token"))
         ELSE SetReq(r, [q EXCEPT !.pc = "rg_tx", !.token = res.token.id, !.user = res.user])
  /\ UNCHANGED <<users, refreshTokens, auditLog, tokenCache, heap, now, nextTok>>

(* RefreshTokenGrant for a request of the instance of the users.            *)
RefreshLookup(r, grantType, tokenStr, dbErr) ==
  RefreshLookupIn(r, grantType, "i1", tokenStr, dbErr)

(* models.GrantRefreshTokenSwap: revoke the presented token, create its     *)
(* successor for the same user.                                             *)
GrantRefreshTokenSwap(tx, user, token, id) ==
  [tx EXCEPT !.revoke = @ \cup {token},
             !.insert = @ \cup {NewRefreshToken(id, user, token)}]

(* Variants of the transaction of the refresh grant: one that creates the   *)
(* successor and leaves the presented token, one that grants a token as a   *)
(* login does.                                                              *)
RefreshTxBodyNoRevoke(user, token, id) ==
  [NewAuditLogEntry(EmptyTx, user, "token_refreshed")
     EXCEPT !.insert = @ \cup {NewRefreshToken(id, user, token)}]

RefreshTxBodyRegrant(user, token, id) ==
  GrantAuthenticatedUser(NewAuditLogEntry(EmptyTx, user, "token_refreshed"), user, id)

(* The writes of the function passed to db.Tx in the refresh grant:         *)
(* NewAuditLogEntry(TokenRefreshedAction), then GrantRefreshTokenSwap of    *)
(* the token that was looked up.                                            *)
RefreshTxBody(user, token, id) ==
  GrantRefreshTokenSwap(NewAuditLogEntry(EmptyTx, user, "token_refreshed"), user, token, id)

(* Variant of the refresh grant that signs after its transaction.          *)
RefreshCommitsBeforeSigning(failAt) == failAt \in {"none", "sign"}

(* db.Tx commits when its function returns nil: the audit entry, the swap,  *)
(* the signing and the cookie are all inside the function, and so is every  *)
(* error they return.                                                       *)
RefreshCommits(failAt) == failAt = "none"

(* db.Tx of the refresh grant: NewAuditLogEntry, GrantRefreshTokenSwap,     *)
(* generateAccessToken, the cookie, the commit, and the response built      *)
(* after it.  failAt names the statement that returns an error.             *)
RefreshTx(r, failAt, cookie) ==
  /\ At(r, "rg_tx")
  /\ LET tx == RefreshTxBody(UserOf(r).id, reqs[r].token, nextTok)
         commits == RefreshCommits(failAt)
         q == [reqs[r] EXCEPT !.newTok = nextTok,
                              !.access = GenerateAccessToken(UserOf(r), JWTExp, now)]
     IN  /\ commits => nextTok <= MaxTokens
         /\ nextTok' = IF commits THEN nextTok + 1 ELSE nextTok
         /\ refreshTokens' = IF commits THEN ApplyTokens(refreshTokens, tx) ELSE refreshTokens
         /\ auditLog' = IF commits THEN ApplyAudit(auditLog, tx) ELSE auditLog
         /\ CASE failAt \in {"audit", "swap", "sign"} ->
                   Finish(r, [reqs[r] EXCEPT !.pc = failAt], InternalServerError(failAt))
              [] failAt = "commit" ->
                   Finish(r, [SetCookieToken(q, cookie) EXCEPT !.pc = failAt],
                          InternalServerError(failAt))
              [] failAt = "none" ->
                   Finish(r, SetCookieToken(q, cookie), OkResp(IssuedPair(q)))
  /\ UNCHANGED <<users, tokenCache, heap, now>>

(* ---- logout -------------------------------------------------------------- *)
(* models.Logout(ctx, db, instanceID, userID): the user's refresh tokens    *)
(* are removed from the store.                                              *)
Logout(u) ==
  /\ out = NoOut
  /\ u \in {x.id : x \in users}
  /\ refreshTokens' = {t \in refreshTokens : t.user # u}
  /\ loggedOut' = loggedOut \cup {t.id : t \in {x \in refreshTokens : x.user = u}}
  /\ out' = NoOut
  /\ UNCHANGED <<users, auditLog, tokenCache, heap, now, nextTok, reqs, client, api, cipher, signer, invites, dial>>

(* ---- the clock ----------------------------------------------------------- *)
Tick ==
  /\ out = NoOut
  /\ now < MaxTime
  /\ now' = now + 1
  /\ out' = NoOut
  /\ UNCHANGED <<users, refreshTokens, auditLog, tokenCache, heap, nextTok, reqs, client, loggedOut, api, cipher, signer, invites, dial>>

(* The response of the last step reaches the client.                       *)
Deliver ==
  /\ out # NoOut
  /\ out' = NoOut
  /\ UNCHANGED <<users, refreshTokens, auditLog, tokenCache, heap, now, nextTok, reqs, client, loggedOut, api, cipher, signer, invites, dial>>

(* ---- the system ---------------------------------------------------------- *)
(* A request arrives and its handler runs up to its first lookup.           *)
ArrivePassword ==
  \E r \in Reqs, e \in Emails, p \in Passwords, d \in BOOLEAN :
    PasswordLookup(r, "password", e, p, "a1", d)

Arrive ==
  \/ ArrivePassword
  \/ \E r \in Reqs, t \in 0..MaxTokens, d \in {"none", "token", "user"} :
        RefreshLookup(r, "refresh_token", t, d)

(* The later steps of the password grants being served.                     *)
PasswordSteps ==
  \/ \E r \in Reqs : PasswordCacheGet(r)
  \/ \E r \in Reqs : PasswordCacheHit(r)
  \/ \E r \in Reqs : PasswordSendCached(r)
  \/ \E r \in Reqs, f \in {"none", "audit", "hook", "grant", "sign", "inner"},
        n \in {"join", "own"} : PasswordTx(r, f, n)
  \/ \E r \in Reqs, f \in BOOLEAN, c \in BOOLEAN : PasswordCommit(r, f, c)
  \/ \E r \in Reqs : PasswordCacheAdd(r)
  \/ \E r \in Reqs : PasswordSend(r)

(* The later steps of the requests being served.                            *)
Steps ==
  \/ PasswordSteps
  \/ \E r \in Reqs, f \in {"none", "audit", "swap", "sign", "commit"}, c \in BOOLEAN :
        RefreshTx(r, f, c)

(* A cached token is evicted: its expiry has come within the margin, or its *)
(* payload does not decode.                                                 *)
Evict == \E r \in Reqs : PasswordCacheRemove(r)

(* The workers serve requests concurrently, all within one second of the    *)
(* clock, for users whose token payloads decode: no cached token is evicted.*)
Next ==
  \/ Arrive
  \/ Steps
  \/ \E u \in UserIds : Logout(u)
  \/ Deliver

Spec == Init /\ [][Next]_vars

(* Password grants are served one after the other while the clock runs and  *)
(* users log out.                                                           *)
NoneServed == \A r \in Reqs : reqs[r].pc = "idle"

NextClock ==
  \/ NoneServed /\ ArrivePassword
  \/ PasswordSteps
  \/ Evict
  \/ \E u \in UserIds : Logout(u)
  \/ Tick
  \/ Deliver

SpecClock == InitClock /\ [][NextClock]_vars

(* One client: it logs in, then keeps presenting the refresh token of its   *)
(* latest successful response, one request after the other.                 *)
ClientLogin ==
  /\ NoneServed
  /\ client = NoClient
  /\ \E d \in BOOLEAN : PasswordLookup(1, "password", "e1", "pw", "a1", d)

ClientRefresh ==
  /\ NoneServed
  /\ client # NoClient
  /\ \E d \in {"none", "token", "user"} : RefreshLookup(1, "refresh_token", client.tok, d)

(* The client receives the response: a token pair replaces the one it held. *)
ClientReceive ==
  /\ out # NoOut
  /\ out' = NoOut
  /\ client' = IF out.resp.status # 200 THEN client
               ELSE [tok |-> out.resp.pair.RefreshToken,
                     n |-> IF out.kind = "refresh" THEN client.n + 1 ELSE 0]
  /\ UNCHANGED <<users, refreshTokens, auditLog, tokenCache, heap, now, nextTok, reqs, loggedOut, api, cipher, signer, invites, dial>>

NextSeq ==
  \/ ClientLogin
  \/ ClientRefresh
  \/ \E f \in {"none", "audit", "swap", "sign", "commit"}, c \in BOOLEAN : RefreshTx(1, f, c)
  \/ PasswordCacheGet(1)
  \/ \E f \in {"none", "audit", "hook", "grant", "sign", "inner"},
        n \in {"join", "own"} : PasswordTx(1, f, n)
  \/ \E f \in BOOLEAN, c \in BOOLEAN : PasswordCommit(1, f, c)
  \/ PasswordCacheAdd(1)
  \/ PasswordSend(1)
  \/ Tick
  \/ ClientReceive

SpecSeq == Init /\ [][NextSeq]_vars

(* ---- the token endpoint --------------------------------------------------- *)
(* The values of the form field grant_type that are tried; "" for a request *)
(* without the field.                                                       *)
GrantTypes == {"password", "refresh_token", "", "client_credentials"}

(* The error of the token endpoint for a grant type it does not serve.      *)
UnsupportedGrantType == OAuthError("unsupported_grant_type", "")

(* Variant of the switch on grant_type that takes a missing grant type for  *)
(* a password grant.                                                        *)
TokenRoutePasswordByDefault(grantType) ==
  IF grantType \in {"password", ""} THEN "password"
  ELSE IF grantType = "refresh_token" THEN "refresh"
  ELSE "unsupported"

(* switch grantType in API.Token.                                           *)
TokenRoute(grantType) ==
  IF grantType = "password" THEN "password"
  ELSE IF grantType = "refresh_token" THEN "refresh"
  ELSE "unsupported"

(* API.Token: the grant type of the form selects the handler; the default   *)
(* branch returns the error.                                                *)
Token(r, grantType, username, password, tokenStr, dbErr) ==
  IF TokenRoute(grantType) = "password"
    THEN PasswordLookup(r, grantType, username, password, "a1", dbErr # "none")
  ELSE IF TokenRoute(grantType) = "refresh"
    THEN RefreshLookup(r, grantType, tokenStr, dbErr)
  ELSE /\ Free(r)
       /\ Finish(r, [IdleReq EXCEPT !.kind = "token", !.pc = "token",
                                    !.grantType = grantType], UnsupportedGrantType)
       /\ UNCHANGED <<users, refreshTokens, auditLog, tokenCache, heap, now, nextTok>>

(* One request after the other reaches the token endpoint, with any grant   *)
(* type.                                                                    *)
NextToken ==
  \/ /\ NoneServed
     /\ \E g \in GrantTypes, e \in {"e1", "e3", "e0"}, p \in Passwords, t \in 0..MaxTokens,
           d \in {"none", "token", "user"} : Token(1, g, e, p, t, d)
  \/ PasswordSteps
  \/ \E r \in Reqs, f \in {"none", "audit", "swap", "sign", "commit"}, c \in BOOLEAN :
        RefreshTx(r, f, c)
  \/ Deliver

SpecToken == Init /\ [][NextToken]_vars

(* The instances requests are made under: the one of the users, and another. *)
Instances == {"i1", "i2"}

(* One request after the other: password grants under the instance of the   *)
(* users, refresh grants under either instance.                             *)
NextInstance ==
  \/ NoneServed /\ ArrivePassword
  \/ /\ NoneServed
     /\ \E i \in Instances, t \in 0..MaxTokens, d \in {"none", "token", "user"} :
           RefreshLookupIn(1, "refresh_token", i, t, d)
  \/ PasswordSteps
  \/ \E r \in Reqs, f \in {"none", "audit", "swap", "sign", "commit"}, c \in BOOLEAN :
        RefreshTx(r, f, c)
  \/ Deliver

SpecInstance == Init /\ [][NextInstance]_vars

(* ---- creation of users ---------------------------------------------------- *)
(* The ids uuid.NewRandom gives to the users that are created: each is new. *)
NewIds == <<"n1", "n2", "n3", "n4">>
CreatedUsers == {u \in users : \E i \in DOMAIN NewIds : NewIds[i] = u.id}
NewId == NewIds[Cardinality(CreatedUsers) + 1]

(* badRequestError / unprocessableEntityError                               *)
BadRequestError(desc) == [status |-> 400, error |-> "bad_request", desc |-> desc, pair |-> NoPair]
UnprocessableEntityError(desc) ==
  [status |-> 422, error |-> "unprocessable_entity", desc |-> desc, pair |-> NoPair]

(* models.IsDuplicatedEmail: whether FindUserByEmailAndAudience finds a     *)
(* user.                                                                    *)
IsDuplicatedEmail(instanceID, email, aud) ==
  FindUserByEmailAndAudience(instanceID, email, aud) # {}

(* The collection User after Insert of a document: the primary key is the   *)
(* id (with the email), so a document with a new id is always accepted.     *)
InsertUser(us, user) == us \cup {user}

(* adminUserCreate and the command adminCreateUser up to the transaction:   *)
(* IsDuplicatedEmail, outside db.Tx, then models.NewUser.                   *)
CreateCheck(r, via, email, aud, dbErr) ==
  /\ Free(r)
  /\ LET q == [IdleReq EXCEPT !.kind = "create", !.pc = "uc_tx", !.username = email, !.path = via,
                              !.user = [NoUser EXCEPT !.instance = "i1", !.email = email,
                                                      !.aud = aud, !.secret = "pw"]]
     IN  IF dbErr THEN Finish(r, q, InternalServerError("Database error checking email"))
         ELSE IF IsDuplicatedEmail("i1", email, aud)
           THEN Finish(r, q, UnprocessableEntityError("Email address already registered by another user"))
         ELSE SetReq(r, q)
  /\ UNCHANGED <<users, refreshTokens, auditLog, tokenCache, heap, now, nextTok>>

(* The transaction of adminUserCreate and of adminCreateUser: the audit     *)
(* entry (endpoint only), Insert of the user, SetRole, Confirm (endpoint,   *)
(* when asked for).                                                         *)
CreateTx(r, confirm, fail) ==
  /\ At(r, "uc_tx")
  /\ Cardinality(CreatedUsers) < MaxUsers
  /\ LET user == [reqs[r].user EXCEPT !.id = NewId,
                                     !.confirmed = (reqs[r].path = "admin" /\ confirm)]
         q == [reqs[r] EXCEPT !.user = user]
     IN  IF fail
           THEN /\ Finish(r, q, InternalServerError("Database error creating new user"))
                /\ UNCHANGED <<users, auditLog>>
         ELSE /\ Finish(r, q, OkResp(NoPair))
              /\ users' = InsertUser(users, user)
              /\ auditLog' = IF reqs[r].path = "admin"
                               THEN auditLog (+) AuditEntry("admin", "user_signedup")
                               ELSE auditLog
  /\ UNCHANGED <<refreshTokens, tokenCache, heap, now, nextTok>>

(* Signup up to the transaction: FindUserByEmailAndAudience, outside db.Tx. *)
SignupLookup(r, email, aud, dbErr) ==
  /\ Free(r)
  /\ LET found == FindUserByEmailAndAudience("i1", email, aud)
         q == [IdleReq EXCEPT !.kind = "create", !.pc = "su_tx", !.username = email, !.path = "signup",
                              !.user = IF found = {}
                                         THEN [NoUser EXCEPT !.instance = "i1", !.email = email,
                                                             !.aud = aud, !.secret = "pw"]
                                         ELSE CHOOSE u \in found : TRUE]
     IN  IF dbErr THEN Finish(r, q, InternalServerError("Database error finding user"))
         ELSE SetReq(r, q)
  /\ UNCHANGED <<users, refreshTokens, auditLog, tokenCache, heap, now, nextTok>>

(* The transaction of Signup.  A user that was found is refused when        *)
(* confirmed; otherwise signupNewUser reads the collection by email and     *)
(* inserts when it finds nothing, inside the transaction.  With Autoconfirm *)
(* the user is confirmed and the audit entry written.                       *)
SignupTx(r, autoconfirm, fail) ==
  /\ At(r, "su_tx")
  /\ Cardinality(CreatedUsers) < MaxUsers
  /\ autoconfirm => BagCardinality(auditLog) < MaxAudit
  /\ LET found == reqs[r].user
         isNew == found.id = ""
         user == [found EXCEPT !.id = IF isNew THEN NewId ELSE @,
                               !.confirmed = @ \/ autoconfirm]
         q == [reqs[r] EXCEPT !.user = user]
     IN  IF ~isNew /\ IsConfirmed(found)
           THEN /\ Finish(r, q, BadRequestError("A user with this email address has already been registered"))
                /\ UNCHANGED <<users, auditLog>>
         ELSE IF isNew /\ \E u \in users : u.email = found.email
           THEN /\ Finish(r, q, BadRequestError("User already exists with this email address"))
                /\ UNCHANGED <<users, auditLog>>
         ELSE IF fail
           THEN /\ Finish(r, q, InternalServerError("Database error saving new user"))
                /\ UNCHANGED <<users, auditLog>>
         ELSE /\ Finish(r, q, OkResp(NoPair))
              /\ users' = InsertUser({u \in users : u.id # user.id}, user)
              /\ auditLog' = IF autoconfirm
                               THEN auditLog (+) AuditEntry(user.id, "user_signedup")
                               ELSE auditLog
  /\ UNCHANGED <<refreshTokens, tokenCache, heap, now, nextTok>>

(* Users are created through the admin endpoint, the command line and      *)
(* Signup, by requests that run side by side.                               *)
NextCreate ==
  \/ \E r \in Reqs, via \in {"admin", "cli"}, e \in {"e0", "e3"}, a \in Auds, d \in BOOLEAN :
        CreateCheck(r, via, e, a, d)
  \/ \E r \in Reqs, c \in BOOLEAN, f \in BOOLEAN : CreateTx(r, c, f)
  \/ \E r \in Reqs, e \in {"e0", "e3"}, a \in Auds, d \in BOOLEAN : SignupLookup(r, e, a, d)
  \/ \E r \in Reqs, c \in BOOLEAN, f \in BOOLEAN : SignupTx(r, c, f)
  \/ Deliver

SpecCreate == Init /\ [][NextCreate]_vars

(* adminUserDelete: the audit entry and the Delete of the user by id, in    *)
(* one transaction.  The refresh tokens of the user and the cache are not   *)
(* touched.                                                                 *)
AdminUserDelete(u, fail) ==
  /\ out = NoOut
  /\ u \in users
  /\ BagCardinality(auditLog) < MaxAudit + MaxTokens + MaxUsers
  /\ IF fail
       THEN UNCHANGED <<users, auditLog>>
       ELSE /\ users' = users \ {u}
            /\ auditLog' = auditLog (+) AuditEntry("admin", "user_deleted")
  /\ out' = NoOut
  /\ UNCHANGED <<refreshTokens, tokenCache, heap, now, nextTok, reqs, client, loggedOut, api, cipher, signer, invites, dial>>

(* One request after the other: password grants, refresh grants, deletions  *)
(* of users, and creations of users with the email of a user that has been  *)
(* or will be deleted.                                                      *)
NextDelete ==
  \/ NoneServed /\ ArrivePassword
  \/ /\ NoneServed
     /\ \E t \in 1..MaxTokens : RefreshLookup(1, "refresh_token", t, "none")
  \/ PasswordSteps
  \/ \E r \in Reqs : RefreshTx(r, "none", FALSE)
  \/ NoneServed /\ \E u \in users, f \in BOOLEAN : AdminUserDelete(u, f)
  \/ NoneServed /\ \E d \in BOOLEAN : CreateCheck(1, "admin", "e1", "a1", d)
  \/ \E r \in Reqs, f \in BOOLEAN : CreateTx(r, TRUE, f)
  \/ Deliver

SpecDelete == Init /\ [][NextDelete]_vars

(* ---- invitations ---------------------------------------------------------- *)
InvitationStatusPending == "PENDING"
InvitationStatusAccepted == "ACCEPTED"

(* The values a request carries: emails, namespaces, the codes              *)
(* GenerateRandomString can give, the expiration time.                      *)
InviteEmails == {"a@test", "b@test"}
Namespaces == {"org_a", "org_b"}
Codes == {"c1", "c2"}
ExpirationTime == 1
NoInviteResp == [op |-> "none", status |-> 0, email |-> "", ns |-> "", code |-> "", dry |-> FALSE]

(* The collection Invitation after Insert: the primary key is the id, which *)
(* the store generates, so every document is accepted.                      *)
InsertInvitation(docs, invitation) == docs \cup {invitation}

(* CreateInvitation: status PENDING, a new random code, Insert and the      *)
(* invitation mail in one transaction.                                      *)
CreateInvitation(email, ns, code, fail) ==
  /\ invites.n < MaxInvites
  /\ LET invitation == [id |-> invites.n + 1, email |-> email, ns |-> ns, createdBy |-> "google2|1",
                        code |-> code, status |-> InvitationStatusPending,
                        expires |-> ExpirationTime]
         resp == [op |-> "create", status |-> IF fail THEN 500 ELSE 200, email |-> email,
                  ns |-> ns, code |-> code, dry |-> FALSE]
     IN  invites' = IF fail
                      THEN [invites EXCEPT !.resp = resp]
                      ELSE [docs |-> InsertInvitation(invites.docs, invitation),
                            n |-> invites.n + 1, resp |-> resp]
  /\ UNCHANGED <<users, refreshTokens, auditLog, tokenCache, heap, now, nextTok, reqs, out, client, loggedOut, api, cipher, signer, dial>>

(* The test of the loop in VerifyInvitation: code, expiration, status.      *)
InvitationMatches(d, email, code) ==
  /\ d.code = code
  /\ now <= d.expires
  /\ d.status = InvitationStatusPending

(* VerifyInvitation: the body is decoded into email and code (a field dry   *)
(* is not part of VerifyInvitationParams and is dropped); the invitations   *)
(* of the instance are read, and the first that matches is stored as        *)
(* ACCEPTED.                                                                *)
VerifyInvitation(email, code, dry, fail) ==
  /\ invites.n > 0
  /\ LET resp(st) == [op |-> "verify", status |-> st, email |-> email, ns |-> "",
                      code |-> code, dry |-> dry]
         matching == {d \in invites.docs : InvitationMatches(d, email, code)}
     IN  IF email = "" \/ code = "" THEN invites' = [invites EXCEPT !.resp = resp(400)]
         ELSE IF fail THEN invites' = [invites EXCEPT !.resp = resp(500)]
         ELSE IF matching = {} THEN invites' = [invites EXCEPT !.resp = resp(401)]
         ELSE \E d \in matching :
                invites' = [invites EXCEPT
                              !.docs = (@ \ {d}) \cup {[d EXCEPT !.status = InvitationStatusAccepted]},
                              !.resp = [resp(200) EXCEPT !.ns = d.ns]]
  /\ UNCHANGED <<users, refreshTokens, auditLog, tokenCache, heap, now, nextTok, reqs, out, client, loggedOut, api, cipher, signer, dial>>

InitInvite ==
  InitEvery(InitUsers, Serving, NoCipher, NoSigner, [docs |-> {}, n |-> 0, resp |-> NoInviteResp])

(* Invitations are created and verified one request after the other while   *)
(* the clock runs.                                                          *)
NextInvite ==
  \/ \E e \in InviteEmails, ns \in Namespaces, c \in Codes, f \in BOOLEAN :
        CreateInvitation(e, ns, c, f)
  \/ \E e \in InviteEmails \cup {""}, c \in Codes \cup {""}, dry \in BOOLEAN, f \in BOOLEAN :
        VerifyInvitation(e, c, dry, f)
  \/ Tick

SpecInvite == InitInvite /\ [][NextInvite]_vars

(* ---- the store client ----------------------------------------------------- *)
(* for i := 0; i < 3; i++                                                   *)
DialAttempts == 3

(* What one pass of the loop meets: NewDriver fails, NewDriver succeeds and *)
(* Health fails, or both succeed.                                           *)
AttemptOutcomes == {"nodriver", "unhealthy", "healthy"}

(* _, err := drv.Health(ctx): the error is declared anew inside the loop,   *)
(* so the err of the function keeps the value NewDriver gave it.            *)
HealthErr(err, outcome) == err

(* One pass of the loop of storage.Client: driver.NewDriver assigns drv and *)
(* err; on its error the pass sleeps and continues; then drv.Health; on its *)
(* error the pass sleeps and continues; a healthy pass breaks out of the    *)
(* loop where the source has the break, and goes on to the next pass where  *)
(* it has none.                                                             *)
DialAttempt(outcome) ==
  /\ dial.pc = "loop"
  /\ Len(dial.tried) < DialAttempts
  /\ LET err == IF outcome = "nodriver" THEN "driver" ELSE "nil"
         leave == (outcome = "healthy" /\ dial.hasBreak) \/ Len(dial.tried) + 1 = DialAttempts
     IN  dial' = [dial EXCEPT !.tried = Append(@, outcome),
                              !.drv = IF outcome = "nodriver" THEN "nil" ELSE outcome,
                              !.err = HealthErr(err, outcome),
                              !.pc = IF leave THEN "after" ELSE "loop"]
  /\ UNCHANGED <<users, refreshTokens, auditLog, tokenCache, heap, now, nextTok, reqs, out, client, loggedOut, api, cipher, signer, invites>>

(* storage.Client after the loop: the error of the function is returned;    *)
(* otherwise CreateProject, whose error other than "project already exist"  *)
(* is returned, then tigris.NewClient.                                      *)
DialFinish(project, newClient) ==
  /\ dial.pc = "after"
  /\ dial' = [dial EXCEPT
                !.pc = "done",
                !.result = IF dial.err # "nil" THEN "error"
                           ELSE IF project = "error" THEN "error"
                           ELSE IF newClient THEN "client" ELSE "error",
                !.client = dial.err = "nil" /\ project # "error"]
  /\ UNCHANGED <<users, refreshTokens, auditLog, tokenCache, heap, now, nextTok, reqs, out, client, loggedOut, api, cipher, signer, invites>>

(* storage.Client is called; the loop is the one of either copy of the      *)
(* source, with the break or without.                                       *)
InitDial ==
  \E b \in BOOLEAN :
    /\ InitBut(InitUsers, Serving, NoCipher, NoSigner, NoInvites)
    /\ dial = [pc |-> "loop", hasBreak |-> b, tried |-> << >>, drv |-> "nil", err |-> "nil",
               result |-> "none", client |-> FALSE]

NextDial ==
  \/ \E o \in AttemptOutcomes : DialAttempt(o)
  \/ \E p \in {"ok", "exists", "error"}, c \in BOOLEAN : DialFinish(p, c)

SpecDial == InitDial /\ [][NextDial]_vars

(* ---- construction --------------------------------------------------------- *)
(* lru.New(size): the cache, or an error for a size that is not positive.   *)
LruNew(size) == IF size <= 0 THEN "error" ELSE "cache"

(* NewAPIWithVersion: lru.New with the configured capacity; on its error    *)
(* log.Fatal().Msgf, which ends the process.                                *)
NewAPIWithVersion ==
  /\ api.state = "new"
  /\ api' = [api EXCEPT !.state = IF LruNew(api.cacheSize) = "error" THEN "fatal"
                                  ELSE "serving"]
  /\ UNCHANGED <<users, refreshTokens, auditLog, tokenCache, heap, now, nextTok, reqs, out,
                 client, loggedOut, cipher, signer, invites, dial>>

(* The API is constructed with one of the capacities, then serves, one      *)
(* after the other, the password grants of users that share an email.       *)
InitLogin ==
  \E n \in CacheSizes :
    InitAll(SharedEmailUsers, [state |-> "new", cacheSize |-> n], NoCipher)

NextLogin ==
  \/ NewAPIWithVersion
  \/ /\ api.state = "serving"
     /\ NoneServed
     /\ \E e \in {"e1", "e0"}, p \in Passwords, aud \in Auds : PasswordLookup(1, "password", e, p, aud, FALSE)
  \/ PasswordSteps
  \/ Deliver

SpecLogin == InitLogin /\ [][NextLogin]_vars

(* ---- the credential cipher ------------------------------------------------ *)
(* A string of bytes is a sequence over 0..255.  A base64 text is a         *)
(* sequence of symbols: 0..63 the characters of the standard alphabet by    *)
(* their value, PadChar the "=", BadChar a character outside the alphabet.  *)
BlockSize == 16
PadChar == 64
BadChar == 65

(* AESBlockEncrypter.Key: "testkey_testkey_testkey_testkey_".               *)
Key ==
  <<116, 101, 115, 116, 107, 101, 121, 95, 116, 101, 115, 116, 107, 101, 121, 95,
    116, 101, 115, 116, 107, 101, 121, 95, 116, 101, 115, 116, 107, 101, 121, 95>>

(* n copies of the byte b.                                                  *)
Repeat(b, n) == [i \in 1..n |-> b]

RECURSIVE Xor(_, _)
(* The exclusive or of two bytes, bit by bit.                               *)
Xor(a, b) ==
  IF a = 0 THEN b
  ELSE IF b = 0 THEN a
  ELSE ((a + b) % 2) + 2 * Xor(a \div 2, b \div 2)

XorBlock(x, y) == [i \in 1..BlockSize |-> Xor(x[i], y[i])]

(* aes.NewCipher: an error for a key that is not 16, 24 or 32 bytes long.   *)
NewCipher(key) == IF Len(key) \in {16, 24, 32} THEN "block" ELSE "error"

(* The block cipher under the key, as a permutation of the 16-byte blocks:  *)
(* the bytes rotate by one place and each takes up a byte of the key.       *)
BlockEncrypt(key, b) == [i \in 1..BlockSize |-> (b[(i % BlockSize) + 1] + key[i]) % 256]

(* The inverse permutation.                                                 *)
BlockDecrypt(key, c) ==
  [j \in 1..BlockSize |->
     LET i == IF j = 1 THEN BlockSize ELSE j - 1
     IN  (c[i] + 256 - key[i]) % 256]

RECURSIVE CBCEncrypt(_, _, _)
(* mode.CryptBlocks of a CBC encrypter: each block is combined with the     *)
(* ciphertext block before it (the IV for the first) and then encrypted.    *)
CBCEncrypt(key, prev, data) ==
  IF Len(data) = 0 THEN << >>
  ELSE LET c == BlockEncrypt(key, XorBlock(SubSeq(data, 1, BlockSize), prev))
       IN  c \o CBCEncrypt(key, c, SubSeq(data, BlockSize + 1, Len(data)))

RECURSIVE CBCDecrypt(_, _, _)
(* mode.CryptBlocks of a CBC decrypter.                                     *)
CBCDecrypt(key, prev, data) ==
  IF Len(data) = 0 THEN << >>
  ELSE LET c == SubSeq(data, 1, BlockSize)
       IN  XorBlock(BlockDecrypt(key, c), prev)
             \o CBCDecrypt(key, c, SubSeq(data, BlockSize + 1, Len(data)))

RECURSIVE EncodeToString(_)
(* base64.StdEncoding.EncodeToString: three bytes to four characters, the   *)
(* last group filled up with "=".                                           *)
EncodeToString(bs) ==
  IF Len(bs) = 0 THEN << >>
  ELSE IF Len(bs) = 1
    THEN <<bs[1] \div 4, (bs[1] % 4) * 16, PadChar, PadChar>>
  ELSE IF Len(bs) = 2
    THEN <<bs[1] \div 4, (bs[1] % 4) * 16 + (bs[2] \div 16), (bs[2] % 16) * 4, PadChar>>
  ELSE <<bs[1] \div 4, (bs[1] % 4) * 16 + (bs[2] \div 16),
         (bs[2] % 16) * 4 + (bs[3] \div 64), bs[3] % 64>>
         \o EncodeToString(SubSeq(bs, 4, Len(bs)))

RECURSIVE DecodeString(_)
(* base64.StdEncoding.DecodeString: groups of four characters; "=" only to  *)
(* fill the last group; an error for a character outside the alphabet, a    *)
(* misplaced "=" or an incomplete group, with the bytes of the groups       *)
(* before it.                                                               *)
DecodeString(str) ==
  IF Len(str) = 0 THEN [err |-> FALSE, bytes |-> << >>]
  ELSE IF Len(str) < 4 THEN [err |-> TRUE, bytes |-> << >>]
  ELSE LET q == SubSeq(str, 1, 4)
           last == Len(str) = 4
       IN  IF \A i \in 1..4 : q[i] < PadChar
             THEN LET rest == DecodeString(SubSeq(str, 5, Len(str)))
                  IN  [err |-> rest.err,
                       bytes |-> <<q[1] * 4 + (q[2] \div 16),
                                   (q[2] % 16) * 16 + (q[3] \div 4),
                                   (q[3] % 4) * 64 + q[4]>> \o rest.bytes]
           ELSE IF last /\ q[1] < PadChar /\ q[2] < PadChar /\ q[3] = PadChar /\ q[4] = PadChar
             THEN [err |-> FALSE, bytes |-> <<q[1] * 4 + (q[2] \div 16)>>]
           ELSE IF last /\ q[1] < PadChar /\ q[2] < PadChar /\ q[3] < PadChar /\ q[4] = PadChar
             THEN [err |-> FALSE, bytes |-> <<q[1] * 4 + (q[2] \div 16),
                                              (q[2] % 16) * 16 + (q[3] \div 4)>>]
           ELSE [err |-> TRUE, bytes |-> << >>]

(* The outcome of a call that panics.                                       *)
Panicked == [panic |-> TRUE, ct |-> << >>, iv |-> << >>, plain |-> << >>]

(* Variant of the padding length that adds nothing to a full last block.    *)
PadLengthToBoundary(n) == (BlockSize - (n % BlockSize)) % BlockSize

(* padLength := aes.BlockSize - len(plaintext)%aes.BlockSize                *)
PadLength(n) == BlockSize - (n % BlockSize)

(* EncryptWithIV: aes.NewCipher (panic on its error), cipher.NewCBCEncrypter *)
(* (panics for an IV that is not one block long), the padding with          *)
(* padLength bytes of value padLength, CryptBlocks, and the base64 texts of *)
(* ciphertext and IV.                                                       *)
EncryptWithIV(key, plaintext, ivBytes) ==
  IF NewCipher(key) = "error" THEN Panicked
  ELSE IF Len(ivBytes) # BlockSize THEN Panicked
  ELSE LET padLength == PadLength(Len(plaintext))
           paddedPlaintext == plaintext \o Repeat(padLength, padLength)
           ciphertext == CBCEncrypt(key, ivBytes, paddedPlaintext)
       IN  [panic |-> FALSE, ct |-> EncodeToString(ciphertext),
            iv |-> EncodeToString(ivBytes), plain |-> << >>]

(* Encrypt: EncryptWithIV with the 16 bytes read from rand.Reader.          *)
Encrypt(key, plaintext, random) == EncryptWithIV(key, plaintext, random)

(* Decrypt: the ciphertext decoded (panic on its error), aes.NewCipher, the *)
(* IV decoded (its error is logged only), cipher.NewCBCDecrypter (panics    *)
(* for an IV that is not one block long), CryptBlocks (panics for a length  *)
(* that is not a multiple of the block), and the last padLength bytes cut   *)
(* off, padLength being the last byte (an index or a slice out of range     *)
(* panics).                                                                 *)
Decrypt(key, ciphertextBase64, ivBase64) ==
  LET ciphertext == DecodeString(ciphertextBase64)
      ivBytes == DecodeString(ivBase64).bytes
  IN  IF ciphertext.err \/ NewCipher(key) = "error" THEN Panicked
      ELSE IF Len(ivBytes) # BlockSize THEN Panicked
      ELSE IF Len(ciphertext.bytes) % BlockSize # 0 \/ Len(ciphertext.bytes) = 0 THEN Panicked
      ELSE LET paddedPlaintext == CBCDecrypt(key, ivBytes, ciphertext.bytes)
               padLength == paddedPlaintext[Len(paddedPlaintext)]
           IN  IF padLength > Len(paddedPlaintext) THEN Panicked
               ELSE [panic |-> FALSE, ct |-> << >>, iv |-> << >>,
                     plain |-> SubSeq(paddedPlaintext, 1, Len(paddedPlaintext) - padLength)]

(* ---- passwords of a user ------------------------------------------------- *)
(* The passwords tried: every length up to MaxPwLen of one repeated byte    *)
(* (1 and 16 are also padding bytes), and the "hello-world" of the test.    *)
PlainBytes == {1, 16, 97}
HelloWorld == <<104, 101, 108, 108, 111, 45, 119, 111, 114, 108, 100>>
Plaintexts == {Repeat(b, n) : b \in PlainBytes, n \in 0..MaxPwLen} \cup {HelloWorld}

(* The passwords users are given and present.                               *)
UserPasswords == {p \in Plaintexts : Len(p) \in {0, 1, BlockSize}}

(* What rand.Reader delivers for an IV.                                     *)
RandomIVs == {Repeat(0, BlockSize), Repeat(7, BlockSize), [i \in 1..BlockSize |-> i * 15]}

(* Texts found in encryption_iv that are not the base64 of one block: the   *)
(* empty text, a character outside the alphabet, an incomplete group, and   *)
(* the base64 of eight bytes.                                               *)
MalformedIVs ==
  {<< >>, <<BadChar, 1, 2, 3>>, <<1, 2, 3>>, EncodeToString(Repeat(7, 8))}

(* Variant of User.Authenticate that compares the IV texts only.            *)
UserAuthenticateIVOnly(u, password) ==
  LET ivBytes == DecodeString(u.EncryptionIV)
  IN  IF ivBytes.err
        THEN [result |-> "false", ops |-> <<"DecodeString">>]
      ELSE LET e == EncryptWithIV(Key, password, ivBytes.bytes)
           IN  IF e.panic
                 THEN [result |-> "panic", ops |-> <<"DecodeString", "EncryptWithIV">>]
               ELSE [result |-> IF u.EncryptionIV = e.iv THEN "true" ELSE "false",
                     ops |-> <<"DecodeString", "EncryptWithIV">>]

(* User.Authenticate: the stored IV decoded (false on its error), the       *)
(* password encrypted with it by EncryptWithIV (whose panic is the panic of *)
(* the call), and the text compared with the stored one.  ops: the calls    *)
(* made.                                                                    *)
UserAuthenticate(u, password) ==
  LET ivBytes == DecodeString(u.EncryptionIV)
  IN  IF ivBytes.err
        THEN [result |-> "false", ops |-> <<"DecodeString">>]
      ELSE LET e == EncryptWithIV(Key, password, ivBytes.bytes)
           IN  IF e.panic
                 THEN [result |-> "panic", ops |-> <<"DecodeString", "EncryptWithIV">>]
               ELSE [result |-> IF u.EncryptedPassword = e.ct THEN "true" ELSE "false",
                     ops |-> <<"DecodeString", "EncryptWithIV">>]

(* TestEncryption: Encrypt, then Decrypt of what it returned.               *)
TestEncryption(plaintext, random) ==
  /\ cipher.pc = "none"
  /\ LET e == Encrypt(Key, plaintext, random)
         d == IF e.panic THEN Panicked ELSE Decrypt(Key, e.ct, e.iv)
     IN  cipher' = [cipher EXCEPT !.pc = "tested", !.by = "TestEncryption",
                                  !.input = plaintext, !.drawn = random,
                                  !.user = [EncryptedPassword |-> e.ct, EncryptionIV |-> e.iv],
                                  !.plain = d.plain,
                                  !.result = IF e.panic \/ d.panic THEN "panic" ELSE "ok",
                                  !.ops = <<"Encrypt", "Decrypt">>]
  /\ UNCHANGED <<users, refreshTokens, auditLog, tokenCache, heap, now, nextTok, reqs, out,
                 client, loggedOut, api, signer, invites, dial>>

(* NewUser: pw, iv = encrypter.Encrypt(password), both into the user.       *)
NewUser(password, random) ==
  /\ cipher.pc = "none"
  /\ LET e == Encrypt(Key, password, random)
     IN  cipher' = [cipher EXCEPT !.pc = "stored", !.by = "NewUser",
                                  !.user = [EncryptedPassword |-> e.ct, EncryptionIV |-> e.iv],
                                  !.set = password, !.drawn = random,
                                  !.ops = <<"Encrypt">>]
  /\ UNCHANGED <<users, refreshTokens, auditLog, tokenCache, heap, now, nextTok, reqs, out,
                 client, loggedOut, api, signer, invites, dial>>

(* A user read from the store whose encryption_iv holds the text iv.        *)
LoadUser(password, iv) ==
  /\ cipher.pc = "none"
  /\ LET e == Encrypt(Key, password, Repeat(0, BlockSize))
     IN  cipher' = [cipher EXCEPT !.pc = "stored", !.by = "LoadUser",
                                  !.user = [EncryptedPassword |-> e.ct, EncryptionIV |-> iv]]
  /\ UNCHANGED <<users, refreshTokens, auditLog, tokenCache, heap, now, nextTok, reqs, out,
                 client, loggedOut, api, signer, invites, dial>>

(* Variant of UpdatePassword that encrypts with the IV the user has.        *)
UpdatePasswordKeepsIV(password, random) ==
  /\ cipher.pc \in {"stored", "authenticated"}
  /\ cipher.by \in {"NewUser", "UpdatePassword"}
  /\ LET e == EncryptWithIV(Key, password, DecodeString(cipher.user.EncryptionIV).bytes)
     IN  cipher' = [cipher EXCEPT !.pc = "stored", !.by = "UpdatePassword",
                                  !.user = [EncryptedPassword |-> e.ct, EncryptionIV |-> e.iv],
                                  !.set = password, !.former = cipher.set,
                                  !.hasFormer = TRUE, !.drawn = random,
                                  !.input = << >>, !.result = "none",
                                  !.ops = <<"Encrypt">>]
  /\ UNCHANGED <<users, refreshTokens, auditLog, tokenCache, heap, now, nextTok, reqs, out,
                 client, loggedOut, api, signer, invites, dial>>

(* UpdatePassword: pw, iv := encrypter.Encrypt(password), both into the     *)
(* user and into the stored document.                                       *)
UpdatePassword(password, random) ==
  /\ cipher.pc \in {"stored", "authenticated"}
  /\ cipher.by \in {"NewUser", "UpdatePassword"}
  /\ LET e == Encrypt(Key, password, random)
     IN  cipher' = [cipher EXCEPT !.pc = "stored", !.by = "UpdatePassword",
                                  !.user = [EncryptedPassword |-> e.ct, EncryptionIV |-> e.iv],
                                  !.set = password, !.former = cipher.set,
                                  !.hasFormer = TRUE, !.drawn = random,
                                  !.input = << >>, !.result = "none",
                                  !.ops = <<"Encrypt">>]
  /\ UNCHANGED <<users, refreshTokens, auditLog, tokenCache, heap, now, nextTok, reqs, out,
                 client, loggedOut, api, signer, invites, dial>>

(* user.Authenticate(password, a.encrypter) on the user at hand.            *)
AuthenticateUser(password) ==
  /\ cipher.pc \in {"stored", "authenticated"}
  /\ LET a == UserAuthenticate(cipher.user, password)
     IN  cipher' = [cipher EXCEPT !.pc = "authenticated", !.input = password,
                                  !.result = a.result, !.ops = a.ops]
  /\ UNCHANGED <<users, refreshTokens, auditLog, tokenCache, heap, now, nextTok, reqs, out,
                 client, loggedOut, api, signer, invites, dial>>

InitCipher == InitAll(InitUsers, Serving, NoCipher)

NextCipher ==
  \/ \E p \in Plaintexts, iv \in RandomIVs : TestEncryption(p, iv)
  \/ \E p \in UserPasswords, iv \in RandomIVs : NewUser(p, iv)
  \/ \E p \in UserPasswords, iv \in MalformedIVs : LoadUser(p, iv)
  \/ \E p \in UserPasswords, iv \in RandomIVs : UpdatePassword(p, iv)
  \/ \E p \in UserPasswords : AuthenticateUser(p)

SpecCipher == InitCipher /\ [][NextCipher]_vars

(* ---- the token signer ----------------------------------------------------- *)
(* The configurations tried for the signer.                                 *)
SignerConfigs ==
  [Algorithm : Algorithms, RSAPrivateKey : KeyFiles,
   RSAPublicKey : {"unreadable", "unparsable", "ok"},
   Issuer : {<<"iss1">>, <<"iss2">>}, SiteURL : {"site"}]

(* NewTokenSigner at startup: the signer with its configuration, then init, *)
(* which returns, exits the process or panics.                              *)
NewTokenSigner ==
  /\ signer.pc = "new"
  /\ LET t == TokenSignerInit(NewSigner(signer.config))
     IN  signer' = [signer EXCEPT !.pc = IF t.end = "return" THEN "ready" ELSE t.end,
                                  !.t = t]
  /\ UNCHANGED <<users, refreshTokens, auditLog, tokenCache, heap, now, nextTok, reqs, out,
                 client, loggedOut, api, cipher, invites, dial>>

(* What signing with a nil private key ends in.                             *)
NilKeyOutcomes == {"panic", "error"}

(* A grant has generateAccessToken sign a token for the user with the       *)
(* signer that was returned; the clock reads t1 for issued-at and t1 or the *)
(* second after it for the expiry.                                          *)
SignAccessToken(u, t1, d) ==
  /\ signer.pc \in {"ready", "signed"}
  /\ LET token == generateAccessToken(u, JWTExp, signer.config, signer.t, t1, t1 + d)
     IN  IF token.err = "none"
           THEN signer' = [signer EXCEPT !.pc = "signed", !.result = "ok",
                                         !.token = Signed(token)]
           ELSE \E o \in NilKeyOutcomes :
                  signer' = [signer EXCEPT !.pc = "signed", !.result = o,
                                           !.token = NoAccess]
  /\ UNCHANGED <<users, refreshTokens, auditLog, tokenCache, heap, now, nextTok, reqs, out,
                 client, loggedOut, api, cipher, invites, dial>>

InitSigner ==
  \E c \in SignerConfigs :
    InitEvery(InitUsers, Serving, NoCipher,
              [pc |-> "new", config |-> c, t |-> NewSigner(c), result |-> "none",
               token |-> NoAccess],
              NoInvites)

NextSigner ==
  \/ NewTokenSigner
  \/ \E u \in InitUsers, t1 \in 0..MaxTime, d \in {0, 1} : SignAccessToken(u, t1, d)

SpecSigner == InitSigner /\ [][NextSigner]_vars

(* The key files at the configured paths are replaced while the process     *)
(* runs.                                                                    *)
ReplaceKeyFiles(priv, pub) ==
  /\ signer.pc \in {"ready", "signed"}
  /\ signer' = [signer EXCEPT !.config.RSAPrivateKey = priv, !.config.RSAPublicKey = pub]
  /\ UNCHANGED <<users, refreshTokens, auditLog, tokenCache, heap, now, nextTok, reqs, out,
                 client, loggedOut, api, cipher, invites, dial>>

(* tokenSigner := NewTokenSigner(config) in issueRefreshToken: a signer of  *)
(* its own for every password grant, initialised from the key files as they *)
(* are now.                                                                 *)
IssueSigner(t, config) == TokenSignerInit(NewSigner(config))

(* The signing of a password grant (issueRefreshToken): init of the new     *)
(* signer returns, exits the process, or panics, which the recoverer turns  *)
(* into an error response.                                                  *)
IssueRefreshTokenSign(u, t1) ==
  /\ signer.pc \in {"ready", "signed"}
  /\ LET tokenSigner == IssueSigner(signer.t, signer.config)
         token == generateAccessToken(u, JWTExp, signer.config, tokenSigner, t1, t1)
     IN  IF tokenSigner.end = "exit"
           THEN signer' = [signer EXCEPT !.pc = "exit", !.result = "exit", !.token = NoAccess]
         ELSE IF tokenSigner.end = "panic"
           THEN signer' = [signer EXCEPT !.pc = "signed", !.result = "panic", !.token = NoAccess]
         ELSE IF token.err = "none"
           THEN signer' = [signer EXCEPT !.pc = "signed", !.result = "ok",
                                         !.token = Signed(token)]
         ELSE \E o \in NilKeyOutcomes :
                signer' = [signer EXCEPT !.pc = "signed", !.result = o, !.token = NoAccess]
  /\ UNCHANGED <<users, refreshTokens, auditLog, tokenCache, heap, now, nextTok, reqs, out,
                 client, loggedOut, api, cipher, invites, dial>>

(* The process starts, then serves password grants (issueRefreshToken) and  *)
(* refresh grants (the signer of the API) while the key files change.       *)
NextKeys ==
  \/ NewTokenSigner
  \/ \E priv \in KeyFiles \ {""}, pub \in {"unreadable", "unparsable", "ok"} :
        ReplaceKeyFiles(priv, pub)
  \/ \E u \in InitUsers, t1 \in 0..MaxTime : IssueRefreshTokenSign(u, t1)
  \/ \E u \in InitUsers, t1 \in 0..MaxTime : SignAccessToken(u, t1, 0)

SpecKeys == InitSigner /\ [][NextKeys]_vars

TypeOK ==
  /\ nextTok \in 1..(MaxTokens + 1)
  /\ now \in 0..MaxTime
  /\ \A t \in refreshTokens : t.id \in TokIds /\ t.id < nextTok
  /\ Len(tokenCache) <= TokenCacheSize

(* ======================================================================== *)
(* Properties                                                               *)
(* ======================================================================== *)
TokenIds(toks) == {t.id : t \in toks}
IsRevokedIn(toks, id) == \E t \in toks : t.id = id /\ t.revoked
IsActiveIn(toks, id) == \E t \in toks : t.id = id /\ ~t.revoked
OwnerIn(toks, id) == (CHOOSE t \in toks : t.id = id).user
Successors(toks, id) == {s \in toks : s.parent = id}
InvalidGrant == OAuthError("invalid_grant", "Invalid Refresh Token")

(* The step that answers a refresh grant with a token pair.                 *)
RefreshSucceeds == out'.kind = "refresh" /\ out'.resp.status = 200

(* A refresh grant arrives, its lookup passes, and it goes on to its        *)
(* transaction.                                                             *)
Admitted(r) == reqs[r].pc = "idle" /\ reqs'[r].pc = "rg_tx"

(* The step in which the lookup of a refresh grant answers the request.     *)
LookupAnswers == out'.kind = "refresh" /\ out'.at = "rg_lookup"

(* ---- C1 ------------------------------------------------------------------ *)
(* C1_Paired: in every committed store state a token that has a successor   *)
(* is revoked and a revoked token has a successor.                          *)
C1_Paired ==
  \A t \in refreshTokens :
    t.revoked <=> Successors(refreshTokens, t.id) # {}

(* C1: the step of a refresh grant that succeeds on a token T that is       *)
(* non-revoked in the store commits at once the revocation of T and the     *)
(* creation of exactly one new token S, non-revoked, of the same user, with *)
(* S # T and S the refresh token of the response; every other token is left *)
(* as it was; and no store state has T non-revoked together with a          *)
(* successor, nor T revoked without one.                                    *)
C1_RotationAtomic ==
  [][ /\ C1_Paired'
      /\ (RefreshSucceeds /\ IsActiveIn(refreshTokens, out'.tokenStr)) =>
           LET T == out'.tokenStr
               S == out'.resp.pair.RefreshToken
           IN  /\ S # T
               /\ IsRevokedIn(refreshTokens', T)
               /\ {s \in refreshTokens' : s.id \notin TokenIds(refreshTokens)}
                    = {[id |-> S, user |-> OwnerIn(refreshTokens, T),
                        revoked |-> FALSE, parent |-> T]}
               /\ \A t \in refreshTokens : t.id # T => t \in refreshTokens'
               /\ TokenIds(refreshTokens) \subseteq TokenIds(refreshTokens')
    ]_vars

(* A refresh grant has just succeeded: its token is revoked and the token   *)
(* it returned is the non-revoked successor.                                *)
C1_Witness ==
  /\ out.kind = "refresh" /\ out.resp.status = 200
  /\ IsRevokedIn(refreshTokens, out.tokenStr)
  /\ \E s \in Successors(refreshTokens, out.tokenStr) :
       s.id = out.resp.pair.RefreshToken /\ ~s.revoked

(* ---- C2 ------------------------------------------------------------------ *)
(* C2: of the refresh grants presenting one token at most one succeeds, so  *)
(* no token ever has two non-revoked successors.                            *)
C2_SingleSuccessor ==
  \A t \in refreshTokens :
    Cardinality({s \in Successors(refreshTokens, t.id) : ~s.revoked}) <= 1

(* ---- C3 ------------------------------------------------------------------ *)
(* C3: a revoked refresh token is never non-revoked again, whatever the     *)
(* step (password grant, refresh grant, logout); a refresh grant that       *)
(* presents it is never admitted to the transaction and never gets a token  *)
(* pair: its lookup answers invalid_grant (an error; invalid_grant whenever  *)
(* the store reads of the lookup succeed).                                  *)
C3_RevokedIsFinal ==
  [][ /\ \A t \in refreshTokens :
           t.revoked => ~IsActiveIn(refreshTokens', t.id)
      /\ \A r \in Reqs :
           Admitted(r) => ~IsRevokedIn(refreshTokens, reqs'[r].tokenStr)
      /\ (LookupAnswers /\ IsRevokedIn(refreshTokens, out'.tokenStr)) =>
           /\ out'.resp.pair = NoPair
           /\ out'.resp.status # 200
           /\ out'.fault = "none" => out'.resp = InvalidGrant
    ]_vars

(* A refresh grant presenting a revoked token was answered invalid_grant.   *)
C3_Witness ==
  /\ out.kind = "refresh" /\ out.at = "rg_lookup"
  /\ IsRevokedIn(refreshTokens, out.tokenStr)
  /\ out.fault = "none" /\ out.resp = InvalidGrant

(* ---- C4 ------------------------------------------------------------------ *)
(* C4: the refresh grant that presents a revoked token ends in its lookup,  *)
(* which leaves users, refresh tokens, audit log and token cache as they    *)
(* were, clears the session cookie and answers invalid_grant (when the      *)
(* store reads succeed).                                                    *)
C4_RevokedChangesNothing ==
  [][ /\ \A r \in Reqs :
           (reqs[r].pc = "idle" /\ reqs'[r].kind = "refresh"
              /\ IsRevokedIn(refreshTokens, reqs'[r].tokenStr)) => FALSE
      /\ (LookupAnswers /\ IsRevokedIn(refreshTokens, out'.tokenStr)
            /\ out'.fault = "none") =>
           /\ UNCHANGED <<users, refreshTokens, auditLog, tokenCache, nextTok>>
           /\ out'.cookieOut = "cleared"
           /\ out'.resp = InvalidGrant
           /\ reqs' = reqs
    ]_vars

(* The answer to a refresh grant that presented a revoked token: the cookie *)
(* cleared, invalid_grant, the token still revoked with its one successor.  *)
C4_Witness ==
  /\ out.kind = "refresh" /\ out.at = "rg_lookup"
  /\ out.cookieOut = "cleared" /\ out.fault = "none"
  /\ out.resp.error = "invalid_grant"
  /\ IsRevokedIn(refreshTokens, out.tokenStr)
  /\ Cardinality(Successors(refreshTokens, out.tokenStr)) = 1

(* ---- C5 ------------------------------------------------------------------ *)
(* The chain of a token: the token and its predecessors in the store.       *)
RECURSIVE Chain(_)
Chain(id) ==
  IF id \notin TokenIds(refreshTokens) THEN {}
  ELSE LET t == CHOOSE x \in refreshTokens : x.id = id
       IN  {t} \cup Chain(t.parent)

(* C5: when the client has logged in and then made client.n successful      *)
(* refresh grants one after the other, each with the refresh token of the   *)
(* previous response, the chain of the token it holds has client.n + 1      *)
(* tokens, all of the user, of which the one it holds is the only           *)
(* non-revoked one.                                                         *)
C5_ChainOfRotations ==
  (client # NoClient /\ out = NoOut) =>
    LET chain == Chain(client.tok)
    IN  /\ Cardinality(chain) = client.n + 1
        /\ \A t \in chain : t.user = "u1" /\ (t.revoked <=> t.id # client.tok)
        /\ \A t \in refreshTokens : (t.user = "u1" /\ t.revoked) => t \in chain

(* After the login and two successful rotations: three tokens, one active.  *)
C5_Witness ==
  /\ client.n = 2 /\ out = NoOut
  /\ Cardinality(Chain(client.tok)) = 3
  /\ Cardinality({t \in Chain(client.tok) : t.revoked}) = 2

(* ---- C6 ------------------------------------------------------------------ *)
(* A refresh grant is answered with the error of a statement of its         *)
(* transaction.                                                             *)
RefreshFails == out'.kind = "refresh" /\ out'.at \in {"audit", "swap", "sign", "commit"}

(* C6: the step in which a refresh grant fails inside its transaction (at   *)
(* the audit entry, the swap, the signing or the commit) leaves the refresh *)
(* tokens and the audit log as they were: the presented token keeps its     *)
(* state, no successor and no audit entry is added; and its response        *)
(* carries no token pair.                                                   *)
C6_FailedRefreshRollsBack ==
  [][ RefreshFails =>
        /\ UNCHANGED <<users, refreshTokens, auditLog>>
        /\ IsActiveIn(refreshTokens, out'.tokenStr) => IsActiveIn(refreshTokens', out'.tokenStr)
        /\ Successors(refreshTokens', out'.tokenStr) = Successors(refreshTokens, out'.tokenStr)
        /\ out'.resp.status # 200
        /\ out'.resp.pair = NoPair
    ]_vars

(* A refresh grant failed at the signing: its token is non-revoked, without *)
(* successor, and the audit log has no entry of a refresh.                  *)
C6_Witness ==
  /\ out.kind = "refresh" /\ out.at = "sign"
  /\ IsActiveIn(refreshTokens, out.tokenStr)
  /\ Successors(refreshTokens, out.tokenStr) = {}
  /\ \A e \in BagToSet(auditLog) : e.action # "token_refreshed"

(* ---- C7 ------------------------------------------------------------------ *)
(* C7: a refresh token that a logout has removed is never in the store      *)
(* again, and a refresh grant that presents it afterwards fails in its      *)
(* lookup: the lookup reports not-found (invalid_grant), the grant is not   *)
(* admitted to the transaction and no token pair is issued.                 *)
C7_LoggedOutTokensFail ==
  [][ /\ loggedOut' \cap TokenIds(refreshTokens') = {}
      /\ \A r \in Reqs : Admitted(r) => reqs'[r].tokenStr \notin loggedOut
      /\ (LookupAnswers /\ out'.tokenStr \in loggedOut) =>
           /\ out'.resp = InvalidGrant
           /\ out'.cookieOut = "none"
           /\ UNCHANGED <<refreshTokens, auditLog>>
    ]_vars

(* A refresh grant presented a token removed by a logout and was refused.   *)
C7_Witness ==
  /\ out.kind = "refresh" /\ out.at = "rg_lookup"
  /\ out.tokenStr \in loggedOut
  /\ out.resp = InvalidGrant

(* ---- C8 ------------------------------------------------------------------ *)
(* A password grant is answered with the error of the audit entry, the      *)
(* hook, the creation of the refresh token or the signing.                  *)
PasswordFails == out'.kind = "password" /\ out'.at \in {"audit", "hook", "grant", "sign"}

(* C8: the step in which a password grant that missed the cache fails at    *)
(* the audit entry, the hook, the creation of the refresh token or the      *)
(* signing leaves users, refresh tokens and audit log as they were, caches  *)
(* nothing, and answers an error without access token, refresh token or     *)
(* cookie.                                                                  *)
C8_FailedLoginRollsBack ==
  [][ PasswordFails =>
        /\ UNCHANGED <<users, refreshTokens, auditLog, tokenCache>>
        /\ out'.resp.status # 200
        /\ out'.resp.pair = NoPair
        /\ out'.cookieOut = "none"
    ]_vars

(* A first login failed at the signing: nothing is stored.                  *)
C8_Witness ==
  /\ out.kind = "password" /\ out.at = "sign"
  /\ refreshTokens = {} /\ auditLog = EmptyBag /\ tokenCache = << >>

(* ---- C9 ------------------------------------------------------------------ *)
(* C9: every response served from the cache has expires_in equal to the    *)
(* expiry of its access token minus the time of the lookup that found the   *)
(* entry fresh, which is greater than 3600.                                 *)
C9_CachedNeverWithinMargin ==
  (out.kind = "password" /\ out.path = "cache" /\ out.resp.status = 200) =>
    /\ out.resp.pair.ExpiresIn = out.resp.pair.Token.exp - out.checkNow
    /\ out.resp.pair.ExpiresIn > 3600

(* ---- C10 ----------------------------------------------------------------- *)
(* Request r takes a step.                                                  *)
Moves(r) == reqs'[r] # reqs[r]

(* C10: a password grant whose cache entry is fresh (now < expiry - 3600)   *)
(* is served from the cache, and no step of a grant served from the cache   *)
(* changes users, refresh tokens or audit log or generates a refresh token; *)
(* a grant whose entry is stale (now >= expiry - 3600) evicts the entry and *)
(* enters the transaction of the full grant, whose success stores a refresh *)
(* token that was not there before.                                         *)
C10_CacheHitWritesNothing ==
  [][ \A r \in Reqs :
        /\ (reqs[r].pc = "pg_get" /\ Moves(r) /\ CacheContains(UserOf(r).email)) =>
             LET exp == getExpiry(heap[CacheGet(UserOf(r).email)].Token)
             IN  /\ now < exp - 3600 => reqs'[r].pc = "pg_hit"
                 /\ now >= exp - 3600 => reqs'[r].pc = "pg_remove"
        /\ (reqs[r].pc \in {"pg_get", "pg_remove", "pg_hit", "pg_sendcached"} /\ Moves(r)) =>
             UNCHANGED <<users, refreshTokens, auditLog, nextTok>>
        /\ (reqs[r].pc = "pg_sendcached" /\ Moves(r)) =>
             out'.path = "cache" /\ out'.resp.status = 200
        /\ (reqs[r].pc = "pg_remove" /\ Moves(r)) =>
             /\ reqs'[r].pc = "pg_tx"
             /\ ~\E i \in DOMAIN tokenCache' : tokenCache'[i].key = UserOf(r).email
        /\ (reqs[r].pc = "pg_tx" /\ reqs'[r].pc = "pg_commit") =>
             /\ reqs'[r].newTok \notin TokenIds(refreshTokens)
             /\ \E t \in refreshTokens' \cup reqs'[r].tx.insert :
                  t.id = reqs'[r].newTok /\ ~t.revoked /\ t.user = UserOf(r).id
        /\ (reqs[r].pc = "pg_commit" /\ reqs'[r].pc = "pg_add") =>
             reqs[r].tx.insert \subseteq refreshTokens'
    ]_vars

(* The entry of a user whose tokens decode has gone stale with the clock,   *)
(* was evicted, and the full grant that followed has stored a new refresh   *)
(* token next to the one of the first login.                                *)
C10_Witness ==
  \E r \in Reqs :
    /\ reqs[r].pc = "pg_add" /\ reqs[r].user.plainPayload
    /\ tokenCache = << >>
    /\ now >= 2
    /\ IsActiveIn(refreshTokens, reqs[r].newTok)
    /\ Cardinality({t \in refreshTokens : t.user = reqs[r].user.id}) = 2

(* ---- C11 ----------------------------------------------------------------- *)
(* C11: every token pair a password grant returns from the cache was issued *)
(* to the user that authenticated in the request: the subject of its access *)
(* token and the owner of its refresh token are that user.                  *)
C11_CacheServesOwnTokens ==
  (out.kind = "password" /\ out.path = "cache" /\ out.resp.status = 200) =>
    /\ out.resp.pair.Token.sub = <<"gt|", out.user>>
    /\ \A t \in refreshTokens : t.id = out.resp.pair.RefreshToken => t.user = out.user

(* ---- C14 ----------------------------------------------------------------- *)
(* C14: with a configured capacity of zero the API is constructed and       *)
(* serves (with the cache disabled); the construction never ends the        *)
(* process.                                                                 *)
C14_ZeroCapacityServes ==
  api.cacheSize = 0 => api.state \in {"new", "serving"}

(* ---- C12 ----------------------------------------------------------------- *)
(* C12: a token pair served from the cache is as usable as the pair the     *)
(* full grant would issue: when the lookup of a password grant accepts a    *)
(* cached pair, the refresh token of that pair is stored and not revoked.   *)
C12_CachedPairUsable ==
  [][\A r \in Reqs :
       (reqs[r].pc = "pg_get" /\ reqs'[r].pc = "pg_hit") =>
         IsActiveIn(refreshTokens, heap[reqs'[r].cached].RefreshToken)]_vars

(* ---- C13 ----------------------------------------------------------------- *)
(* The request is about to write ExpiresIn of the cached response object p. *)
WritesCached(r, p) == reqs[r].pc = "pg_hit" /\ reqs[r].cached = p

(* The request is about to serialise the response object p.                 *)
ReadsCached(r, p) == reqs[r].pc = "pg_sendcached" /\ reqs[r].cached = p

(* C13: no password grant is about to write a cached response object while  *)
(* another request is about to write or to read the same object.            *)
C13_NoSharedResponseAccess ==
  \A r1, r2 \in Reqs, p \in DOMAIN heap :
    (r1 # r2 /\ WritesCached(r1, p)) => ~(WritesCached(r2, p) \/ ReadsCached(r2, p))

(* ---- C15 ----------------------------------------------------------------- *)
(* The users the lookup of a password grant with this username finds.       *)
Registered(o) == {u \in users : u.email = o.username /\ u.aud = "a1"}

(* The answered password grant named a confirmed user and a password that   *)
(* is not the user's.                                                       *)
WrongPasswordConfirmed(o) ==
  /\ o.kind = "password" /\ o.fault = "none"
  /\ \E u \in Registered(o) : u.confirmed /\ o.password # u.secret

(* C15: the step that answers a password grant with a wrong password for an *)
(* existing confirmed user answers invalid_grant without a token pair and   *)
(* changes neither users, refresh tokens and audit log nor the cache and    *)
(* the response objects it holds; no refresh token string is consumed.      *)
C15_WrongPasswordChangesNothing ==
  [][WrongPasswordConfirmed(out') =>
       /\ out'.resp.error = "invalid_grant"
       /\ out'.resp.status # 200
       /\ out'.resp.pair = NoPair
       /\ out'.path = "none"
       /\ UNCHANGED <<users, refreshTokens, auditLog, tokenCache, heap, nextTok>>]_vars

(* A wrong password is refused while the user has a stored refresh token    *)
(* and a cached pair.                                                       *)
C15_Witness ==
  /\ WrongPasswordConfirmed(out)
  /\ out.resp.error = "invalid_grant"
  /\ refreshTokens # {}
  /\ tokenCache # << >>

(* ---- C16 ----------------------------------------------------------------- *)
(* The answered password grant named an email without a user.               *)
UnknownEmail(o) == o.kind = "password" /\ o.fault = "none" /\ Registered(o) = {}

(* The answered password grant named a user, confirmed or not, and a        *)
(* password that is not the user's.                                         *)
WrongPassword(o) ==
  /\ o.kind = "password" /\ o.fault = "none"
  /\ \E u \in Registered(o) : o.password # u.secret

(* C16 as stated: a wrong password for any existing user is answered with   *)
(* the error (code and description) of an email without a user.             *)
C16_WrongPasswordLikeUnknown ==
  WrongPassword(out) => out.resp = NoUserFoundError

(* C16: a wrong password for an existing confirmed user and an email        *)
(* without a user are answered with one and the same error, code and       *)
(* description.                                                             *)
C16_ConfirmedWrongPasswordLikeUnknown ==
  (UnknownEmail(out) \/ WrongPasswordConfirmed(out)) => out.resp = NoUserFoundError

(* A wrong password for a confirmed user has been answered with the error   *)
(* of the unknown email.                                                    *)
C16_Witness ==
  /\ WrongPasswordConfirmed(out)
  /\ out.resp = NoUserFoundError
  /\ out.at = "pg_lookup"

(* ---- C17 ----------------------------------------------------------------- *)
(* The length in bytes of the ciphertext a base64 text stands for.          *)
CipherLen(ct) == Len(DecodeString(ct).bytes)

(* C17: for every plaintext tried, the empty one and those of a length that *)
(* is or is not a multiple of the block included, Decrypt of what Encrypt   *)
(* returned is the plaintext; the padding is 1 to 16 bytes, brings the      *)
(* length to a multiple of 16, and is cut off whole.                        *)
C17_DecryptInvertsEncrypt ==
  cipher.pc = "tested" =>
    /\ cipher.result = "ok"
    /\ cipher.plain = cipher.input
    /\ CipherLen(cipher.user.EncryptedPassword) % BlockSize = 0
    /\ CipherLen(cipher.user.EncryptedPassword) - Len(cipher.input) \in 1..BlockSize

(* A plaintext of exactly one block that ends in a byte that is also a      *)
(* padding value came back whole.                                           *)
C17_Witness ==
  /\ cipher.pc = "tested"
  /\ Len(cipher.input) = BlockSize
  /\ cipher.input[BlockSize] = 1
  /\ cipher.plain = cipher.input
  /\ CipherLen(cipher.user.EncryptedPassword) = 2 * BlockSize

(* ---- C18 ----------------------------------------------------------------- *)
(* The stored IV is the base64 of one block.                                *)
WellFormedIV(iv) == ~DecodeString(iv).err /\ Len(DecodeString(iv).bytes) = BlockSize

(* C18: Authenticate of a user whose password was set answers true exactly  *)
(* when the password encrypted with the stored IV is the stored ciphertext, *)
(* which is exactly when it is the password that was set, and it calls      *)
(* EncryptWithIV, never Decrypt.                                            *)
C18_AuthenticateReencrypts ==
  (cipher.pc = "authenticated" /\ cipher.by \in {"NewUser", "UpdatePassword"}) =>
    /\ cipher.result \in {"true", "false"}
    /\ cipher.result = "true" <=>
         EncryptWithIV(Key, cipher.input, DecodeString(cipher.user.EncryptionIV).bytes).ct
           = cipher.user.EncryptedPassword
    /\ cipher.result = "true" <=> cipher.input = cipher.set
    /\ \A i \in DOMAIN cipher.ops : cipher.ops[i] # "Decrypt"
    /\ \E i \in DOMAIN cipher.ops : cipher.ops[i] = "EncryptWithIV"

(* A password of one block that is not the one set, of the same length, has *)
(* been refused by the comparison of the ciphertexts.                       *)
C18_Witness ==
  /\ cipher.pc = "authenticated"
  /\ cipher.by = "NewUser"
  /\ cipher.result = "false"
  /\ Len(cipher.input) = Len(cipher.set)
  /\ Len(cipher.set) = BlockSize

(* ---- C19 ----------------------------------------------------------------- *)
(* C19: Authenticate of a user whose stored IV is malformed (not base64,    *)
(* empty, or of a decoded length other than one block) returns false: it    *)
(* does not panic.                                                          *)
C19_MalformedIVReturnsFalse ==
  (cipher.pc = "authenticated" /\ ~WellFormedIV(cipher.user.EncryptionIV)) =>
    cipher.result = "false"

(* ---- C20 ----------------------------------------------------------------- *)
(* C20: after NewUser and after UpdatePassword the stored IV is the one the *)
(* call drew and the stored ciphertext is the password under that IV; after *)
(* UpdatePassword(p) Authenticate(p) is true and Authenticate of the former *)
(* password, when it differs from p, is false.                              *)
C20_PasswordSetStoresOnePair ==
  (cipher.by \in {"NewUser", "UpdatePassword"}) =>
    /\ cipher.user.EncryptionIV = EncodeToString(cipher.drawn)
    /\ cipher.user.EncryptedPassword = EncryptWithIV(Key, cipher.set, cipher.drawn).ct
    /\ (cipher.pc = "authenticated" /\ cipher.input = cipher.set) => cipher.result = "true"
    /\ (cipher.pc = "authenticated" /\ cipher.hasFormer /\ cipher.input = cipher.former
          /\ cipher.former # cipher.set) => cipher.result = "false"

(* After an UpdatePassword that drew another IV than the one stored before, *)
(* the former password has been refused.                                    *)
C20_Witness ==
  /\ cipher.pc = "authenticated"
  /\ cipher.by = "UpdatePassword"
  /\ cipher.hasFormer
  /\ cipher.former # cipher.set
  /\ cipher.input = cipher.former
  /\ cipher.result = "false"

(* ---- C21 ----------------------------------------------------------------- *)
(* The key material of the configuration is not all present and parsable.   *)
BadKeyMaterial(c) == c.RSAPrivateKey # "ok" \/ c.RSAPublicKey # "ok"

(* C21: with key material that is missing or does not parse the             *)
(* initialisation of the signer ends the process: it does not return a      *)
(* signer, and no token is asked of a signer without its key.               *)
C21_BadKeyMaterialEndsProcess ==
  (signer.pc # "none" /\ BadKeyMaterial(signer.config)) =>
    signer.pc \in {"new", "exit", "panic"}

(* ---- C22 ----------------------------------------------------------------- *)
(* C22: every signed access token has the configured JWT issuer as its      *)
(* issuer, not the one set from the site URL; its algorithm is RS256 when   *)
(* RS256 is configured and HS256 otherwise; and its header has the key id,  *)
(* the one of the signer, exactly when the algorithm is RS256.              *)
C22_SignedTokenHeaderAndIssuer ==
  (signer.pc = "signed" /\ signer.result = "ok") =>
    /\ signer.token.iss = signer.config.Issuer
    /\ signer.token.alg = IF signer.config.Algorithm = "RS256" THEN "RS256" ELSE "HS256"
    /\ signer.token.hasKid <=> signer.token.alg = "RS256"
    /\ signer.token.hasKid => signer.token.kid = signer.t.kid

(* A token has been signed with HS256 under a configuration that names no   *)
(* algorithm, for the second issuer.                                        *)
C22_Witness ==
  /\ signer.pc = "signed"
  /\ signer.result = "ok"
  /\ signer.config.Algorithm = ""
  /\ signer.token.alg = "HS256"
  /\ signer.token.iss = <<"iss2">>
  /\ ~signer.token.hasKid

(* ---- C23 ----------------------------------------------------------------- *)
(* A password grant has been answered with a pair that did not come from    *)
(* the cache.                                                               *)
FullGrantAnswered == out.kind = "password" /\ out.path = "full" /\ out.resp.status = 200

(* C23: the pair of a password grant that was not served from the cache has *)
(* an access token and a refresh token; the refresh token is the newest     *)
(* string generated, is stored, not revoked and owned by the user; the      *)
(* token type is bearer and expires_in the configured TTL; the subject of   *)
(* the access token is "gt|" and the user's id and its expiry is issued-at  *)
(* plus the TTL, give or take a second.                                     *)
C23_FullGrantReturnsNewPair ==
  FullGrantAnswered =>
    LET pair == out.resp.pair
    IN  /\ pair.Token # NoAccess
        /\ pair.RefreshToken # NoTok
        /\ pair.RefreshToken = nextTok - 1
        /\ IsActiveIn(refreshTokens, pair.RefreshToken)
        /\ OwnerIn(refreshTokens, pair.RefreshToken) = out.user
        /\ pair.TokenType = "bearer"
        /\ pair.ExpiresIn = JWTExp
        /\ pair.Token.sub = <<"gt|", out.user>>
        /\ pair.Token.exp - pair.Token.iat \in {JWTExp, JWTExp + 1}

(* The user of the second audience got a pair of its own after an earlier   *)
(* grant had failed behind its committed refresh token.                     *)
C23_Witness ==
  /\ FullGrantAnswered
  /\ out.user = "u4"
  /\ out.resp.pair.RefreshToken > 1

(* ---- C24 ----------------------------------------------------------------- *)
(* C24: a request is in the password flow only with grant_type password and *)
(* in the refresh flow only with grant_type refresh_token; the step that    *)
(* answers any other grant type, the absent one included, answers           *)
(* unsupported_grant_type and changes neither users, refresh tokens and     *)
(* audit log nor the cache and its response objects, and starts no flow.    *)
C24_OnlyTheTwoGrantTypesServed ==
  [][/\ \A r \in Reqs :
          /\ reqs'[r].kind = "password" => reqs'[r].grantType = "password"
          /\ reqs'[r].kind = "refresh" => reqs'[r].grantType = "refresh_token"
     /\ out'.kind = "password" => out'.grantType = "password"
     /\ out'.kind = "refresh" => out'.grantType = "refresh_token"
     /\ (out' # NoOut /\ out'.grantType \notin {"password", "refresh_token"}) =>
          /\ out'.resp = UnsupportedGrantType
          /\ out'.kind = "token"
          /\ UNCHANGED <<users, refreshTokens, auditLog, tokenCache, heap, nextTok, reqs>>]_vars

(* A request without grant_type has been refused while the store holds a    *)
(* refresh token and the cache an entry.                                    *)
C24_Witness ==
  /\ out.kind = "token"
  /\ out.grantType = ""
  /\ out.resp = UnsupportedGrantType
  /\ refreshTokens # {}
  /\ tokenCache # << >>

(* ---- C25 ----------------------------------------------------------------- *)
(* A refresh grant has been answered at its lookup, where the read of the   *)
(* presented refresh token met an error of the store.                       *)
TokenReadFailed ==
  /\ out.kind = "refresh"
  /\ out.at = "rg_lookup"
  /\ out.tokenStr # NoTok
  /\ out.fault = "token"

(* C25: a refresh grant whose read of the presented refresh token meets an  *)
(* error of the store is answered with a server error and never with       *)
(* invalid_grant.                                                           *)
C25_TokenReadErrorIsServerError ==
  TokenReadFailed =>
    /\ out.resp.error = "server_error"
    /\ out.resp.error # "invalid_grant"

(* ---- C26 ----------------------------------------------------------------- *)
(* C26: no two users of the collection have the same instance, email and    *)
(* audience, whatever the order in which the steps of the creations through *)
(* the admin endpoint, Signup and the command line are taken.               *)
C26_EmailUniquePerAudience ==
  \A u, v \in users :
    (u.instance = v.instance /\ u.email = v.email /\ u.aud = v.aud) => u = v

(* ---- C27 ----------------------------------------------------------------- *)
(* Request r is about to look into the cache, which holds for its user a    *)
(* token whose payload does not decode.                                     *)
MalformedCached(r) ==
  /\ out = NoOut
  /\ reqs[r].pc = "pg_get"
  /\ CacheContains(reqs[r].user.email)
  /\ ~heap[CacheGet(reqs[r].user.email)].Token.stdDecodable

(* C27: a lookup that finds a cached token whose payload does not decode    *)
(* goes on to remove the entry and then to the transaction of the full      *)
(* grant, never to the cached answer; the API keeps serving with its cache, *)
(* the full grant stores its token in the cache again, and every successful *)
(* grant of a user whose payloads do not decode is a full grant.            *)
C27_MalformedCachedIsAMiss ==
  [][/\ \A r \in Reqs :
          /\ (MalformedCached(r) /\ reqs'[r] # reqs[r]) =>
                /\ reqs'[r].pc = "pg_remove"
                /\ api' = api
          /\ (reqs[r].pc = "pg_remove" /\ reqs'[r] # reqs[r]) =>
                /\ reqs'[r].pc = "pg_tx"
                /\ out' = NoOut
                /\ api' = api
          /\ (reqs[r].pc = "pg_add" /\ reqs'[r] # reqs[r] /\ api.cacheSize > 0) =>
                \E i \in DOMAIN tokenCache' : tokenCache'[i].key = reqs[r].user.email
     /\ api'.state = "serving"
     /\ (out'.kind = "password" /\ out'.resp.status = 200 /\ out'.user = "u2") =>
          out'.path = "full"]_vars

(* The second of two logins in a row of the user whose payloads do not      *)
(* decode has been answered by the full grant.                              *)
C27_Witness ==
  /\ out.kind = "password"
  /\ out.user = "u2"
  /\ out.path = "full"
  /\ out.resp.status = 200
  /\ out.resp.pair.RefreshToken = 2
  /\ \A i \in {1, 2} : \E t \in refreshTokens : t.id = i /\ t.user = "u2"
  /\ CacheContains("e2")

(* ---- C28 ----------------------------------------------------------------- *)
(* The invitations stored for an email in a namespace.                      *)
InvitationsFor(docs, email, ns) == {d \in docs : d.email = email /\ d.ns = ns}

(* C28: a successful creation of an invitation for an email that has one    *)
(* pending invitation of the same inviter in the namespace leaves the       *)
(* invitations of that email in the namespace as they were: one, with the   *)
(* code of the first creation.                                              *)
C28_RepeatedInvitationKeepsOne ==
  [][(/\ invites'.resp.op = "create"
      /\ invites'.resp.status = 200
      /\ invites'.n # invites.n
      /\ LET before == InvitationsFor(invites.docs, invites'.resp.email, invites'.resp.ns)
         IN  /\ Cardinality(before) = 1
             /\ \A d \in before : d.status = InvitationStatusPending)
     => /\ InvitationsFor(invites'.docs, invites'.resp.email, invites'.resp.ns)
             = InvitationsFor(invites.docs, invites'.resp.email, invites'.resp.ns)]_vars

(* ---- C29 ----------------------------------------------------------------- *)
(* Invitation d is pending, has not expired, and is the one of the email    *)
(* with the code.                                                           *)
InvitationMatchesEmail(d, email, code) ==
  /\ d.email = email
  /\ d.code = code
  /\ now <= d.expires
  /\ d.status = InvitationStatusPending

(* C29: a verification with the dry flag, for an email and a code of a      *)
(* pending invitation that has not expired, is answered 200 and leaves      *)
(* every invitation as it was.                                              *)
C29_DryVerificationKeepsPending ==
  [][(/\ invites'.resp.op = "verify"
      /\ invites'.resp.dry
      /\ invites' # invites
      /\ \E d \in invites.docs :
            InvitationMatchesEmail(d, invites'.resp.email, invites'.resp.code))
     => (invites'.resp.status = 200 /\ invites'.docs = invites.docs)]_vars

(* ---- C30 ----------------------------------------------------------------- *)
(* The password grant answered by this step asked for a user that is not    *)
(* confirmed, and the store returned no error.                              *)
UnconfirmedAnswered ==
  /\ out = NoOut
  /\ out'.kind = "password"
  /\ out'.fault = "none"
  /\ \E u \in users : u.email = out'.username /\ u.aud = "a1" /\ ~u.confirmed

(* C30: a password grant for a user that is not confirmed is answered       *)
(* invalid_grant, Email not confirmed, at the lookup, whatever the          *)
(* password; the step changes neither the store nor the cache nor the       *)
(* counter of tokens, and no request goes past the lookup with a user that  *)
(* is not confirmed.                                                        *)
C30_UnconfirmedRefused ==
  [][/\ UnconfirmedAnswered =>
          /\ out'.resp = NotConfirmedError
          /\ out'.at = "pg_lookup"
          /\ out'.path = "none"
          /\ UNCHANGED <<users, refreshTokens, auditLog, tokenCache, heap, nextTok>>
     /\ \A r \in Reqs :
          (reqs'[r].kind = "password" /\ reqs'[r].pc # "pg_lookup") => reqs'[r].user.confirmed]_vars

(* The user that is not confirmed has been refused with the right password  *)
(* while the cache holds an entry.                                          *)
C30_Witness ==
  /\ out.kind = "password"
  /\ out.username = "e3"
  /\ out.password = "pw"
  /\ out.resp = NotConfirmedError
  /\ tokenCache # << >>

(* ---- C31 ----------------------------------------------------------------- *)
(* The entries of a cache: its pairs of key and pointer.                    *)
CacheEntries(c) == {c[i] : i \in DOMAIN c}

(* C31: a request reaches the update of the cache only by the step that     *)
(* commits the transaction of its grant; an entry is added to the cache or  *)
(* replaced in it only by a request at that update, which then sends its    *)
(* pair; and the step that answers a password grant with an error leaves    *)
(* the cache as it was.                                                     *)
C31_CacheUpdatedAfterCommit ==
  [][/\ \A r \in Reqs :
          (reqs'[r].pc = "pg_add" /\ reqs[r].pc # "pg_add") =>
             /\ reqs[r].pc = "pg_commit"
             /\ refreshTokens' = ApplyTokens(refreshTokens, reqs[r].tx)
             /\ auditLog' = ApplyAudit(auditLog, reqs[r].tx)
             /\ tokenCache' = tokenCache
     /\ ~(CacheEntries(tokenCache') \subseteq CacheEntries(tokenCache)) =>
          \E r \in Reqs :
             /\ reqs[r].pc = "pg_add"
             /\ reqs'[r].pc = "pg_send"
             /\ CacheEntries(tokenCache') \ CacheEntries(tokenCache)
                  = {[key |-> reqs[r].user.email, ptr |-> reqs[r].newTok]}
     /\ (out = NoOut /\ out'.kind = "password" /\ out'.resp.status # 200) =>
          tokenCache' = tokenCache]_vars

(* A grant has failed at its commit while the cache holds the pair of an    *)
(* earlier grant of the same user.                                          *)
C31_Witness ==
  /\ out.kind = "password"
  /\ out.at = "pg_commit"
  /\ out.resp.status # 200
  /\ out.username = "e1"
  /\ \E e \in CacheEntries(tokenCache) : e.key = "e1" /\ e.ptr < nextTok - 1

(* ---- C32 ----------------------------------------------------------------- *)
(* The process has started with a signer that holds both keys.              *)
StartedWithKeys ==
  /\ signer.pc \in {"ready", "signed"}
  /\ signer.t.privateKey = "key"
  /\ signer.t.publicKey = "key"

(* C32: once the process has started with a signer that holds its keys, no  *)
(* step of a grant ends the process or fails to sign, whatever has become   *)
(* of the key files since: the keys are those loaded at startup.            *)
C32_KeysLoadedOnce ==
  [][StartedWithKeys =>
       /\ signer'.pc \in {"ready", "signed"}
       /\ signer'.result \in {"none", "ok"}
       /\ signer'.t = signer.t]_vars

(* ---- C33 ----------------------------------------------------------------- *)
(* A grant has been answered with an error at the commit of its             *)
(* transaction.                                                             *)
CommitFailed ==
  /\ out.kind \in {"password", "refresh"}
  /\ out.fault = "none"
  /\ out.resp.status # 200
  /\ out.at \in {"pg_commit", "commit"}

(* C33: the response of a grant whose transaction did not commit carries no *)
(* access token: none in its body and none in a cookie.                     *)
C33_FailedGrantCarriesNoToken ==
  CommitFailed =>
    /\ out.resp.pair = NoPair
    /\ out.cookieOut # "token"

(* ---- C34 ----------------------------------------------------------------- *)
(* C34: a verification answered 200 found a pending invitation that has not *)
(* expired and has both the email and the code of the request, and it is    *)
(* that invitation which becomes ACCEPTED; a verification answered          *)
(* otherwise changes no invitation.                                         *)
C34_VerifyNeedsEmailAndCode ==
  [][(invites'.resp.op = "verify" /\ invites' # invites) =>
       IF invites'.resp.status = 200
         THEN \E d \in invites.docs :
                /\ InvitationMatchesEmail(d, invites'.resp.email, invites'.resp.code)
                /\ invites'.docs = (invites.docs \ {d})
                                     \cup {[d EXCEPT !.status = InvitationStatusAccepted]}
         ELSE invites'.docs = invites.docs]_vars

(* ---- C35 ----------------------------------------------------------------- *)
(* An attempt of the constructor was healthy.                               *)
SomeHealthy == \E i \in DOMAIN dial.tried : dial.tried[i] = "healthy"

(* C35: the constructor of the store client makes at most three attempts,   *)
(* makes none after a healthy one, and, when no attempt was healthy,        *)
(* returns an error and calls tigris.NewClient for no client.               *)
C35_DialRetriesThenFails ==
  /\ Len(dial.tried) <= DialAttempts
  /\ \A i \in DOMAIN dial.tried : dial.tried[i] = "healthy" => i = Len(dial.tried)
  /\ (dial.pc = "done" /\ ~SomeHealthy) => (dial.result = "error" /\ ~dial.client)

(* ---- C36 ----------------------------------------------------------------- *)
(* C36: the refresh token in the response of a successful password grant,   *)
(* served from the cache or not, is in the store and not revoked when the   *)
(* response is produced.                                                    *)
C36_ReturnedRefreshTokenActive ==
  (out.kind = "password" /\ out.resp.status = 200) =>
    IsActiveIn(refreshTokens, out.resp.pair.RefreshToken)

(* ---- C37 ----------------------------------------------------------------- *)
(* C37: a refresh grant is answered with a token pair only when the user    *)
(* the pair is issued to belongs to the instance the request was made       *)
(* under.                                                                   *)
C37_RefreshWithinInstance ==
  (out.kind = "refresh" /\ out.resp.status = 200) =>
    \E u \in users : u.id = out.user /\ u.instance = out.instance

(* ---- C38 ----------------------------------------------------------------- *)
(* C38: the token pair of a response is that of a user who is in the store: *)
(* after the deletion of a user no response has an access token with the    *)
(* id of that user as its subject, or a refresh token of that user.         *)
C38_NoTokensOfDeletedUsers ==
  (out.kind \in {"password", "refresh"} /\ out.resp.status = 200) =>
    \E u \in users :
      /\ out.resp.pair.Token.sub = <<"gt|", u.id>>
      /\ \A t \in refreshTokens : t.id = out.resp.pair.RefreshToken => t.user = u.id

(* ---- C39 ----------------------------------------------------------------- *)
(* C39: Authenticate, the one test of the password in the password grant,   *)
(* does not accept the empty password, whatever password the user was       *)
(* created with or given since.                                             *)
C39_EmptyPasswordRefused ==
  (cipher.pc = "authenticated" /\ cipher.input = << >>) => cipher.result # "true"

====
